---- MODULE Spec2Model ----
(***************************************************************************)
(* A model of the two programs of the repository:                          *)
(*                                                                         *)
(*   - TableOfContentsManager (src/unnamed/part_000), the browser-side     *)
(*     controller that builds the table of contents from the headings of   *)
(*     the article, tracks the scroll position and scrolls on link clicks; *)
(*   - cli.sh (src/lib/scripts/@walle/cli.sh), the scaffolding CLI.        *)
(*                                                                         *)
(* The specifications share the variables:                                 *)
(*   SpecGen      generateTOC applied to every small document and option   *)
(*                set;                                                     *)
(*   Spec         the controller after init(): scroll events, link clicks, *)
(*                timers and scrollend events, over a clock in             *)
(*                milliseconds;                                            *)
(*   SpecReentry  the same controller on one page, with more clicks;       *)
(*   SpecPanel    the header of the panel: taps, clicks, keys, and the     *)
(*                debounced resize of the window;                          *)
(*   SpecAbsent   init() on pages where a container, or every heading, is  *)
(*                missing;                                                 *)
(*   SpecThrottle the scroll handler under scroll events that follow one   *)
(*                another within, at the end of and after a throttle       *)
(*                window;                                                  *)
(*   SpecPoll     waitForScrollEnd under a smooth scroll animated in       *)
(*                steps;                                                   *)
(*   SpecCLI      one run of cli.sh for every small argument list, and     *)
(*                SpecCLIFair, the same with the script always taking its  *)
(*                next step.                                               *)
(*                                                                         *)
(* Timing assumption of Spec: a timer callback runs at its deadline (the   *)
(* clock does not pass a pending deadline); callbacks due at the same      *)
(* instant run in the order of their deadlines and then of registration,   *)
(* and events of the environment interleave freely with them.              *)
(***************************************************************************)
EXTENDS Integers, Sequences, FiniteSets, TLC

(***************************************************************************)
(* Bounds of the model.                                                    *)
(***************************************************************************)
\* Longest article (number of elements inside #article-content) of SpecGen.
MaxHeadings == 3
\* Link clicks per behaviour of Spec, and of SpecReentry.
MaxClicks == 2
ReentryClicks == 3
\* Scroll events per behaviour of Spec, and of SpecThrottle.
MaxScrolls == 1
ThrottleScrolls == 3
\* Free clock steps (time passing with no timer due) per behaviour of Spec.
MaxWaits == 1
\* Header, keyboard and resize events per behaviour of SpecPanel and of
\* SpecAbsent.
MaxInputs == 4
\* Most arguments after the first one on the command line of SpecCLI.
MaxArgs == 4

(***************************************************************************)
(* Program constants.                                                      *)
(***************************************************************************)
MobileMaxWidth == 1024
DesktopOffset == 120
MobileFallbackOffset == 100
SafetyTimeout == 3000
MobileMenuDelay == 150
MobileAdjustDelay == 320
DesktopCheckDelay == 240
DesktopCheckTolerance == 4
ScrollPollInterval == 50
maxChecks == 50
ThrottleLimit == 16
AutoCollapseItems == 6
AutoCollapseWidth == 768

(***************************************************************************)
(* Small helpers on sequences.                                             *)
(***************************************************************************)
Range(s) == {s[i] : i \in DOMAIN s}

SeqsUpTo(S, n) == UNION {[1..k -> S] : k \in 0..n}

Abs(x) == IF x < 0 THEN -x ELSE x

Min(S) == CHOOSE x \in S : \A y \in S : x <= y

Max(S) == CHOOSE x \in S : \A y \in S : y <= x

(***************************************************************************)
(* Text.  A text is a sequence of one-character strings.                   *)
(***************************************************************************)
IsSpace(c) == c = " "

\* String.prototype.trim: drop the white space at both ends.
RECURSIVE TrimLeft(_)
TrimLeft(t) ==
  IF t # <<>> /\ IsSpace(Head(t)) THEN TrimLeft(Tail(t)) ELSE t

RECURSIVE TrimRight(_)
TrimRight(t) ==
  IF t # <<>> /\ IsSpace(t[Len(t)]) THEN TrimRight(SubSeq(t, 1, Len(t) - 1)) ELSE t

Trim(t) == TrimRight(TrimLeft(t))

\* The pattern src occurs in text at the 0-based offset i.
MatchesAt(src, text, i) ==
  /\ i + Len(src) <= Len(text)
  /\ \A k \in 1..Len(src) : text[i + k] = src[k]

(***************************************************************************)
(* RegExp.prototype.test for a literal pattern.  A pattern is a record     *)
(* [src, global, lastIndex]: a pattern with the g flag searches from its   *)
(* lastIndex and moves it behind the match (back to 0 on a failure); a     *)
(* pattern without the flag searches from 0 and leaves lastIndex alone.    *)
(* The result is [found, re]: the answer and the pattern afterwards.       *)
(***************************************************************************)
RegExpTest(re, text) ==
  LET start == IF re.global THEN re.lastIndex ELSE 0
      hits  == {i \in start..Len(text) : MatchesAt(re.src, text, i)}
  IN IF hits = {}
       THEN [found |-> FALSE,
             re |-> IF re.global THEN [re EXCEPT !.lastIndex = 0] ELSE re]
       ELSE [found |-> TRUE,
             re |-> IF re.global
                      THEN [re EXCEPT !.lastIndex = Min(hits) + Len(re.src)]
                      ELSE re]

\* excludeTextPatterns.some((re) => re.test(text)): the patterns are tried in
\* order and the first match ends the scan.  [found, res]: the answer and the
\* patterns afterwards.
RECURSIVE SomeTest(_, _, _)
SomeTest(res, text, k) ==
  IF k > Len(res) THEN [found |-> FALSE, res |-> res]
  ELSE LET r == RegExpTest(res[k], text)
           res1 == [res EXCEPT ![k] = r.re]
       IN IF r.found THEN [found |-> TRUE, res |-> res1]
          ELSE SomeTest(res1, text, k + 1)

(***************************************************************************)
(* Elements and selectors.  An element of the article is a record          *)
(*   tag            "H2", "H3" or "H4"                                     *)
(*   id             its id attribute, a text (<<>>: none)                  *)
(*   text           its textContent                                        *)
(*   skipAttr       it carries the skipAttribute                           *)
(*   classes        its class list                                         *)
(*   selfContainer  it carries the skipContainerAttribute itself           *)
(*   inContainer    one of its ancestors carries it                        *)
(*   top            its top edge in document coordinates (px)              *)
(*   scrollMargin   its computed scroll-margin-top, a text                 *)
(* A selector is a record [tags, class]: a comma-separated list of type    *)
(* selectors, or a class selector when class is not "".                    *)
(***************************************************************************)
Matches(el, sel) ==
  IF sel.class # "" THEN sel.class \in el.classes ELSE el.tag \in sel.tags

\* articleContent.querySelectorAll(selector): the positions, in document
\* order, of the matching elements.
QuerySelectorAllAny(d, sel, k) == [i \in 1..Len(d) |-> i]

RECURSIVE QuerySelectorAll(_, _, _)
QuerySelectorAll(d, sel, k) ==
  IF k > Len(d) THEN <<>>
  ELSE (IF Matches(d[k], sel) THEN <<k>> ELSE <<>>) \o QuerySelectorAll(d, sel, k + 1)

\* el.closest("[attr]"): the element itself or an ancestor carries attr.
Closest(el) == el.selfContainer \/ el.inContainer

(***************************************************************************)
(* shouldExcludeHeading.  The rules are tried in the order of the source   *)
(* and the first that holds ends the test, so the text patterns are only   *)
(* run against a heading no earlier rule excludes.  [exclude, res]: the    *)
(* answer and options.excludeTextPatterns afterwards.                      *)
(***************************************************************************)
SkipClass == "toc-skip"

ShouldExcludeHeading(el, opts) ==
  IF el.skipAttr THEN [exclude |-> TRUE, res |-> opts.excludeTextPatterns]
  ELSE IF SkipClass \in el.classes THEN [exclude |-> TRUE, res |-> opts.excludeTextPatterns]
  ELSE IF Closest(el) THEN [exclude |-> TRUE, res |-> opts.excludeTextPatterns]
  ELSE IF \E k \in DOMAIN opts.excludeSelectors : Matches(el, opts.excludeSelectors[k])
    THEN [exclude |-> TRUE, res |-> opts.excludeTextPatterns]
  ELSE LET t == SomeTest(opts.excludeTextPatterns, Trim(el.text), 1)
       IN [exclude |-> t.found, res |-> t.res]

(***************************************************************************)
(* generateHeadingId: `${level}-${index}-${slug}` where the slug is the    *)
(* text in lower case, without the characters that are neither word        *)
(* characters, white space nor hyphens, every run of white space replaced  *)
(* by one hyphen, cut to 50 characters.                                    *)
(***************************************************************************)
SlugLimit == 50

ToLowerCase(c) == IF c = "A" THEN "a" ELSE IF c = "B" THEN "b" ELSE c

IsSlugChar(c) == c \in {"a", "b", "A", "B", "_", "-", " "}

RECURSIVE Slugify(_, _)
Slugify(t, inSpaces) ==
  IF t = <<>> THEN <<>>
  ELSE LET c == ToLowerCase(Head(t))
       IN IF ~IsSlugChar(c) THEN Slugify(Tail(t), inSpaces)
          ELSE IF IsSpace(c)
            THEN (IF inSpaces THEN <<>> ELSE <<"-">>) \o Slugify(Tail(t), TRUE)
          ELSE <<c>> \o Slugify(Tail(t), FALSE)

Level(tag) == IF tag = "H2" THEN "h2" ELSE IF tag = "H3" THEN "h3" ELSE "h4"

GenerateHeadingId(el, index) ==
  LET slug == Slugify(el.text, FALSE)
  IN <<Level(el.tag), "-", ToString(index), "-">>
       \o SubSeq(slug, 1, IF Len(slug) < SlugLimit THEN Len(slug) ELSE SlugLimit)

(***************************************************************************)
(* createTocLink.  A link of #toc-nav is a record                          *)
(*   href         the id its href points at (href = "#" + id)              *)
(*   tocIndex     its data-toc-index                                       *)
(*   level        its data-level                                           *)
(*   active       it carries the class active                              *)
(*   ariaCurrent  its aria-current attribute ("none": not set)             *)
(*   navigating   it carries the class navigating                          *)
(***************************************************************************)
CreateTocLink(tocItem, index, tagName) ==
  [href |-> tocItem.id, tocIndex |-> index,
   level |-> IF tagName = "H2" THEN "2" ELSE "3",
   active |-> FALSE, ariaCurrent |-> "none", navigating |-> FALSE]

(***************************************************************************)
(* The loop of generateTOC over the matched headings: hs are the positions *)
(* of the headings in the document d, k the position in hs of the heading  *)
(* to visit (the forEach index is k - 1).  The accumulator acc holds the   *)
(* items and links made so far, the text patterns and the document (a      *)
(* heading without id is given its generated id).                          *)
(***************************************************************************)
RECURSIVE GenerateLoop(_, _, _, _)
GenerateLoop(hs, k, opts, acc) ==
  IF k > Len(hs) THEN acc
  ELSE LET el == acc.doc[hs[k]]
           ex == ShouldExcludeHeading(el, [opts EXCEPT !.excludeTextPatterns = acc.res])
       IN IF ex.exclude
            THEN GenerateLoop(hs, k + 1, opts, [acc EXCEPT !.res = ex.res])
            ELSE LET id   == IF el.id = <<>> THEN GenerateHeadingId(el, k - 1) ELSE el.id
                     item == [id |-> id, text |-> el.text, element |-> hs[k]]
                     link == CreateTocLink(item, Len(acc.items), el.tag)
                 IN GenerateLoop(hs, k + 1, opts,
                      [items |-> Append(acc.items, item),
                       links |-> Append(acc.links, link),
                       res   |-> ex.res,
                       doc   |-> [acc.doc EXCEPT ![hs[k]].id = id]])

(***************************************************************************)
(* parseInt(text, 10): skip leading white space, read an optional sign and *)
(* the longest run of decimal digits; NaN when there is no digit.          *)
(* [nan, val].                                                             *)
(***************************************************************************)
Digits == <<"0", "1", "2", "3", "4", "5", "6", "7", "8", "9">>

IsDigit(c) == \E d \in DOMAIN Digits : Digits[d] = c

DigitValue(c) == (CHOOSE d \in DOMAIN Digits : Digits[d] = c) - 1

RECURSIVE ReadDigits(_, _)
ReadDigits(t, acc) ==
  IF t # <<>> /\ IsDigit(Head(t)) THEN ReadDigits(Tail(t), 10 * acc + DigitValue(Head(t)))
  ELSE acc

ParseInt(text) ==
  LET t    == TrimLeft(text)
      neg  == t # <<>> /\ Head(t) = "-"
      body == IF t # <<>> /\ Head(t) \in {"-", "+"} THEN Tail(t) ELSE t
  IN IF body = <<>> \/ ~IsDigit(Head(body)) THEN [nan |-> TRUE, val |-> 0]
     ELSE [nan |-> FALSE,
           val |-> IF neg THEN 0 - ReadDigits(body, 0) ELSE ReadDigits(body, 0)]

(***************************************************************************)
(* getDynamicOffset.                                                       *)
(***************************************************************************)
GetDynamicOffset(mobile, items, d) ==
  IF ~mobile THEN DesktopOffset
  ELSE IF items # <<>>
    THEN LET cs == d[items[1].element].scrollMargin
             sm == ParseInt(IF cs = <<>> THEN <<"0">> ELSE cs)
         IN IF ~sm.nan /\ sm.val > 0 THEN sm.val ELSE MobileFallbackOffset
  ELSE MobileFallbackOffset

(***************************************************************************)
(* The loop of updateActiveTOC: i is the 0-based index of the item to      *)
(* visit, activeIndex the last index found so far.  The top of an element  *)
(* in document coordinates is getBoundingClientRect().top + scrollTop.     *)
(***************************************************************************)
RECURSIVE ActiveIndexLoopFirstMatch(_, _, _, _, _, _)
ActiveIndexLoopFirstMatch(items, d, scrollTop, offset, i, activeIndex) ==
  IF i >= Len(items) THEN activeIndex
  ELSE IF d[items[i + 1].element].top <= scrollTop + offset THEN i
  ELSE ActiveIndexLoopFirstMatch(items, d, scrollTop, offset, i + 1, activeIndex)

RECURSIVE ActiveIndexLoop(_, _, _, _, _, _)
ActiveIndexLoop(items, d, scrollTop, offset, i, activeIndex) ==
  IF i >= Len(items) THEN activeIndex
  ELSE LET elementTop == d[items[i + 1].element].top
       IN ActiveIndexLoop(items, d, scrollTop, offset, i + 1,
            IF elementTop <= scrollTop + offset THEN i ELSE activeIndex)

\* updateActiveLinks: every link of #toc-nav is active exactly when its
\* position is activeIndex.
UpdateActiveLinksAddOnly(links, activeIndex) ==
  [k \in DOMAIN links |->
     IF k - 1 = activeIndex
       THEN [links[k] EXCEPT !.active = TRUE, !.ariaCurrent = "location"]
       ELSE links[k]]

UpdateActiveLinks(links, activeIndex) ==
  [k \in DOMAIN links |->
     [links[k] EXCEPT !.active = (k - 1 = activeIndex),
                      !.ariaCurrent = IF k - 1 = activeIndex THEN "location" ELSE "false"]]

(***************************************************************************)
(* State.                                                                  *)
(***************************************************************************)
VARIABLES
  \* The page: the elements of #article-content in document order, the
  \* options given to the constructor (the RegExp objects of
  \* excludeTextPatterns carry their lastIndex), the viewport width, the
  \* features of the browser and the scroll position of the window.
  doc, options, innerWidth, features, scrollY,
  \* The destination of the smooth scroll the browser is animating (-1: none)
  \* and whether the window has scrolled since the last scrollend event.
  smoothTarget, moved,
  \* A scroll event is waiting to be dispatched.
  scrollPending,
  \* Fields of TableOfContentsManager.  articleContent, tocNav and
  \* tocContainer tell whether the element was found.
  tocItems, currentActiveIndex, articleContent, tocNav, tocContainer,
  isScrolling, isMobile, lastScrollTimestamp,
  \* The DOM of the table of contents: the links of #toc-nav, the display
  \* style and the class collapsed of #toc, whether #toc has an h3 header,
  \* whether the header carries the toggle handlers, its aria-expanded
  \* attribute ("none": not set), a MutationObserver callback is due.
  tocLinks, tocDisplay, collapsed, tocHeader, headerToggle, ariaExpanded,
  observerPending,
  \* The event loop: the clock (ms), the pending timers in the order they
  \* will run, the scrollend listeners in the order they were added, and the
  \* inThrottle flag of the throttled scroll handler.
  now, timers, scrollEndListeners, inThrottle,
  \* "constructed" after the constructor, "ready" after init().
  phase,
  \* The clicks, user scrolls and free clock steps the behaviour may still
  \* take.  History: the number of scrollToElement calls accepted so far (the n-th accepted
  \* call is scroll n), the scrolls whose onScrollComplete has run, and the
  \* onScrollComplete calls the last step made, as [link, scroll].
  clicks, scrolls, waits, scrollCount, completed, calls,
  \* The closure of setupHeaderToggle on the header being touched
  \* (touchStartY, touchStartX, isTap) and the closure of the debounced
  \* resize handler: timeout is the id of the timer it scheduled last (0:
  \* null), timerIds the number of ids it has been given.
  touchStartY, touchStartX, isTap, timeout, timerIds,
  \* The header, keyboard and resize events the behaviour may still take.
  \* History: the points of the touch sequence in progress (<<>>: none), the
  \* time of the last resize event (-1: none) and the number of runs of the
  \* debounced handler since, and the key of the last keydown on the header
  \* ("": none).
  inputs, touches, lastResize, setupRuns, lastKey,
  \* History: the time at which the throttled scroll handler last ran
  \* updateActiveTOC (-1: it has not run yet), and the scrolls for which
  \* checkScroll of waitForScrollEnd has invoked its callback, one entry per
  \* invocation.
  lastRun, polled

(***************************************************************************)
(* cli.sh.                                                                 *)
(*                                                                         *)
(* main runs the command inside `if ! ${command} "${args[@]}"`: bash       *)
(* ignores set -e in the whole body of a function called in the test of an *)
(* if or under !, so inside init and update a failing command does not end *)
(* the script: only an explicit test of its status does.  main itself runs *)
(* with set -e in force.                                                   *)
(***************************************************************************)
VARIABLES
  \* The command line, and the position of the script.
  argv, pc,
  \* Locals of main, and the positional parameters of init / update.
  command, args,
  \* Shell variables.
  PROJECT_NAME, DIR_PATH, PROJECT_PATH, GITHUB_WALLE_VERSION_BRANCH,
  GITHUB_WALLE_VERSION_SHA,
  \* The file system: TEMP_DIR exists, the directories that exist among the
  \* paths of the command line, <project dir>/.walle.config.json, something
  \* under the project directory has been removed, copied or written, and the
  \* number of sync_files calls of sync_walle_files that have returned.
  TEMP_DIR, dirs, config, touched, synced,
  \* What was printed: the number of [ERROR] lines, the usage text shown
  \* ("": none), the [INFO] lines of a success; and the exit status (-1
  \* while running).
  out, exitCode,
  \* History: the commands among git clone, mkdir and cp that returned a
  \* non-zero status, and whether a step ran after one of them did.
  failed, afterFail

cliVars == <<argv, pc, command, args, PROJECT_NAME, DIR_PATH, PROJECT_PATH,
             GITHUB_WALLE_VERSION_BRANCH, GITHUB_WALLE_VERSION_SHA, TEMP_DIR, dirs,
             config, touched, synced, out, exitCode, failed, afterFail>>

pageVars == <<doc, options, innerWidth, features, scrollY, smoothTarget, moved,
              scrollPending>>

managerVars == <<tocItems, currentActiveIndex, articleContent, tocNav, tocContainer,
                 isScrolling, isMobile, lastScrollTimestamp>>

domVars == <<tocLinks, tocDisplay, collapsed, tocHeader, headerToggle, ariaExpanded,
             observerPending>>

loopVars == <<now, timers, scrollEndListeners, inThrottle, lastRun>>

historyVars == <<clicks, scrolls, waits, scrollCount, completed, polled, calls>>

panelVars == <<touchStartY, touchStartX, isTap, timeout, timerIds, inputs, touches,
               lastResize, setupRuns, lastKey>>

tocVars == <<pageVars, managerVars, domVars, loopVars, phase, historyVars, panelVars>>

vars == <<tocVars, cliVars>>

(***************************************************************************)
(* The part of the state the handlers of the controller write, as a record *)
(* st, so that a handler that calls another is the composition of the two. *)
(***************************************************************************)
Cur ==
  [isScrolling |-> isScrolling, lastScrollTimestamp |-> lastScrollTimestamp,
   currentActiveIndex |-> currentActiveIndex, tocLinks |-> tocLinks,
   timers |-> timers, scrollEndListeners |-> scrollEndListeners,
   scrollY |-> scrollY, smoothTarget |-> smoothTarget, moved |-> moved,
   scrollPending |-> scrollPending, collapsed |-> collapsed,
   observerPending |-> observerPending,
   scrollCount |-> scrollCount, completed |-> completed, polled |-> polled,
   calls |-> <<>>]

Commit(st) ==
  /\ isScrolling' = st.isScrolling
  /\ lastScrollTimestamp' = st.lastScrollTimestamp
  /\ currentActiveIndex' = st.currentActiveIndex
  /\ tocLinks' = st.tocLinks
  /\ timers' = st.timers
  /\ scrollEndListeners' = st.scrollEndListeners
  /\ scrollY' = st.scrollY
  /\ smoothTarget' = st.smoothTarget
  /\ moved' = st.moved
  /\ scrollPending' = st.scrollPending
  /\ collapsed' = st.collapsed
  /\ observerPending' = st.observerPending
  /\ scrollCount' = st.scrollCount
  /\ completed' = st.completed
  /\ polled' = st.polled
  /\ calls' = st.calls

\* What Commit leaves alone.
restVars == <<doc, options, innerWidth, features, tocItems, articleContent, tocNav,
              tocContainer, isMobile, tocDisplay, tocHeader, headerToggle,
              ariaExpanded, phase, panelVars, cliVars>>

(***************************************************************************)
(* The window.                                                             *)
(***************************************************************************)
\* The greatest scroll position of the document.
MaxScrollTop == 400

Clamp(y) == IF y < 0 THEN 0 ELSE IF y > MaxScrollTop THEN MaxScrollTop ELSE y

\* window.scrollTo / scrollBy without animation: the position jumps, a
\* scroll event is queued when it changed, a running animation ends.
JumpTo(st, y) ==
  LET to == Clamp(y)
  IN [st EXCEPT !.scrollY = to, !.smoothTarget = -1,
                !.moved = st.moved \/ to # st.scrollY,
                !.scrollPending = st.scrollPending \/ to # st.scrollY]

\* window.scrollTo({behavior: "smooth"}) / scrollIntoView({behavior: "smooth"}):
\* the browser starts to animate towards y; nothing moves when the window is
\* already there.
SmoothTo(st, y) ==
  [st EXCEPT !.smoothTarget = IF Clamp(y) = st.scrollY THEN -1 ELSE Clamp(y)]

\* setTimeout(callback, delay): timers run in the order of their deadlines,
\* and in the order of registration among equal deadlines.
AddTimer(ts, t) ==
  LET before == {k \in DOMAIN ts : ts[k].at <= t.at}
      n == IF before = {} THEN 0 ELSE Max(before)
  IN SubSeq(ts, 1, n) \o <<t>> \o SubSeq(ts, n + 1, Len(ts))

Timer(at, kind, link, scroll, pos, count) ==
  [at |-> at, kind |-> kind, link |-> link, scroll |-> scroll, pos |-> pos,
   count |-> count]

\* document.getElementById(id): the first element carrying the id (0: none).
GetElementById(d, id) ==
  IF \E k \in DOMAIN d : d[k].id = id
    THEN Min({k \in DOMAIN d : d[k].id = id})
    ELSE 0

\* tocItems.findIndex((i) => i.id === targetId), 0-based, -1 when not found.
FindIndexLast(items, id) ==
  IF \E k \in DOMAIN items : items[k].id = id
    THEN Max({k \in DOMAIN items : items[k].id = id}) - 1
    ELSE -1

FindIndex(items, id) ==
  IF \E k \in DOMAIN items : items[k].id = id
    THEN Min({k \in DOMAIN items : items[k].id = id}) - 1
    ELSE -1

(***************************************************************************)
(* Handlers of the controller, as functions of st.                         *)
(***************************************************************************)

\* classList.add / toggle on #toc: the class attribute is written, which
\* queues a record for the MutationObserver of the current header.
SetCollapsed(st, c) ==
  [st EXCEPT !.collapsed = c, !.observerPending = st.observerPending \/ headerToggle]

\* onScrollComplete(link); scroll is the scrollToElement call whose timer or
\* listener makes the call.
OnScrollComplete(st, link, scroll) ==
  LET s1  == [st EXCEPT !.isScrolling = FALSE,
                        !.tocLinks[link].navigating = FALSE,
                        !.completed = st.completed \cup {scroll}]
      idx == FindIndex(tocItems, s1.tocLinks[link].href)
      s2  == IF idx # -1 /\ idx # s1.currentActiveIndex
               THEN [s1 EXCEPT !.tocLinks = UpdateActiveLinks(s1.tocLinks, idx),
                               !.currentActiveIndex = idx]
               ELSE s1
  IN [s2 EXCEPT !.calls = Append(s2.calls, [link |-> link, scroll |-> scroll])]

\* The safety timeout of scrollToElement.
ArmSafetyNever(st, scroll) == st

ArmSafety(st, scroll) ==
  [st EXCEPT !.timers = AddTimer(st.timers,
     Timer(now + SafetyTimeout, "safety", 0, scroll, 0, 0))]

\* waitForScrollEnd(callback): the first poll is due in 50 ms.
WaitForScrollEnd(st, link, scroll) ==
  [st EXCEPT !.timers = AddTimer(st.timers,
     Timer(now + ScrollPollInterval, "poll", link, scroll, st.scrollY, 0))]

\* scrollToElement(element, link): element is a position in doc, link a
\* position in tocLinks.
ScrollToElement(st, element, link) ==
  LET s0 == IF st.isScrolling /\ now - st.lastScrollTimestamp > SafetyTimeout
              THEN [st EXCEPT !.isScrolling = FALSE]
              ELSE st
  IN IF s0.isScrolling THEN s0
     ELSE
       LET scroll == s0.scrollCount + 1
           s1 == [s0 EXCEPT !.isScrolling = TRUE,
                            !.lastScrollTimestamp = now,
                            !.scrollCount = scroll]
           s2 == ArmSafety(s1, scroll)
           offset == GetDynamicOffset(isMobile, tocItems, doc)
       IN IF isMobile
            THEN \* scrollIntoView honours the scroll-margin-top of the element
                 LET sm == ParseInt(doc[element].scrollMargin)
                     s3 == SmoothTo(s2, doc[element].top - (IF sm.nan THEN 0 ELSE sm.val))
                 IN [s3 EXCEPT !.timers = AddTimer(s3.timers,
                       Timer(now + MobileAdjustDelay, "adjust", link, scroll, offset, 0))]
            ELSE
              LET targetPosition == doc[element].top - offset
                  s3 == [s2 EXCEPT !.tocLinks[link].navigating = TRUE]
              IN IF features.scrollBehavior
                   THEN LET s4 == SmoothTo(s3, targetPosition)
                            s5 == [s4 EXCEPT !.timers = AddTimer(s4.timers,
                                     Timer(now + DesktopCheckDelay, "check", link, scroll,
                                           targetPosition, 0))]
                        IN IF features.onscrollend
                             THEN [s5 EXCEPT !.scrollEndListeners =
                                     Append(s5.scrollEndListeners,
                                            [link |-> link, scroll |-> scroll])]
                             ELSE WaitForScrollEnd(s5, link, scroll)
                   ELSE OnScrollComplete(JumpTo(s3, targetPosition), link, scroll)

\* updateActiveTOC, reading the items and the document given (init() runs it
\* on the items generateTOC has just made).
UpdateActiveTOCOfWhileScrolling(st, items, d) ==
  IF Len(items) = 0 THEN st
  ELSE LET offset == GetDynamicOffset(isMobile, items, d)
           activeIndex == ActiveIndexLoop(items, d, st.scrollY, offset, 0, -1)
       IN IF activeIndex # st.currentActiveIndex
            THEN [st EXCEPT !.tocLinks = UpdateActiveLinks(st.tocLinks, activeIndex),
                            !.currentActiveIndex = activeIndex]
            ELSE st

UpdateActiveTOCOf(st, items, d) ==
  IF Len(items) = 0 \/ st.isScrolling THEN st
  ELSE LET offset == GetDynamicOffset(isMobile, items, d)
           activeIndex == ActiveIndexLoop(items, d, st.scrollY, offset, 0, -1)
       IN IF activeIndex # st.currentActiveIndex
            THEN [st EXCEPT !.tocLinks = UpdateActiveLinks(st.tocLinks, activeIndex),
                            !.currentActiveIndex = activeIndex]
            ELSE st

UpdateActiveTOC(st) == UpdateActiveTOCOf(st, tocItems, doc)

(***************************************************************************)
(* setupMobileInteraction: the header of #toc is replaced by a clone (the  *)
(* attributes stay, the listeners go); on mobile the clone gets the toggle *)
(* handlers and the panel is collapsed when the list is long or the        *)
(* viewport narrow.  h is [collapsed, headerToggle, ariaExpanded,          *)
(* observerPending].                                                       *)
(***************************************************************************)
SetupMobileInteractionByWidth(h, mobile, width, nItems) ==
  IF ~tocContainer \/ ~tocHeader THEN h
  ELSE IF mobile
    THEN LET h1 == [h EXCEPT !.headerToggle = TRUE, !.ariaExpanded = "true"]
         IN IF width <= AutoCollapseWidth
              THEN [h1 EXCEPT !.collapsed = TRUE, !.observerPending = TRUE]
              ELSE h1
    ELSE [h EXCEPT !.headerToggle = FALSE]

SetupMobileInteraction(h, mobile, width, nItems) ==
  IF ~tocContainer \/ ~tocHeader THEN h
  ELSE IF mobile
    THEN LET h1 == [h EXCEPT !.headerToggle = TRUE, !.ariaExpanded = "true"]
         IN IF nItems > AutoCollapseItems \/ width <= AutoCollapseWidth
              THEN [h1 EXCEPT !.collapsed = TRUE, !.observerPending = TRUE]
              ELSE h1
    ELSE [h EXCEPT !.headerToggle = FALSE]

(***************************************************************************)
(* generateTOC, as the values it leaves in tocItems, the links of          *)
(* #toc-nav, the document, the text patterns and the display of #toc.      *)
(***************************************************************************)
GenerateTOC ==
  LET none == [made |-> FALSE, items |-> tocItems, links |-> tocLinks,
               res |-> options.excludeTextPatterns, doc |-> doc, display |-> tocDisplay]
  IN IF ~articleContent \/ ~tocNav \/ ~tocContainer THEN none
     ELSE LET headings == QuerySelectorAll(doc, options.headingSelector, 1)
          IN IF Len(headings) = 0 THEN [none EXCEPT !.display = "none"]
             ELSE LET acc == GenerateLoop(headings, 1, options,
                               [items |-> <<>>, links |-> <<>>,
                                res |-> options.excludeTextPatterns, doc |-> doc])
                  IN [made |-> TRUE, items |-> acc.items, links |-> tocLinks \o acc.links,
                      res |-> acc.res, doc |-> acc.doc, display |-> tocDisplay]

(***************************************************************************)
(* Actions.                                                                *)
(***************************************************************************)
\* A handler runs only when no microtask is due: the MutationObserver
\* callback runs right after the handler that wrote the class.
Ready == phase = "ready" /\ ~observerPending

\* init(): generateTOC, initNavigationHandlers, updateActiveTOC, bindEvents.
PageInit ==
  /\ phase = "constructed"
  /\ LET g  == GenerateTOC
         h0 == [collapsed |-> collapsed, headerToggle |-> headerToggle,
                ariaExpanded |-> ariaExpanded, observerPending |-> observerPending]
         h  == IF g.made
                 THEN SetupMobileInteraction(h0, isMobile, innerWidth, Len(g.items))
                 ELSE h0
         st == UpdateActiveTOCOf([Cur EXCEPT !.tocLinks = g.links], g.items, g.doc)
     IN /\ tocItems' = g.items
        /\ doc' = g.doc
        /\ options' = [options EXCEPT !.excludeTextPatterns = g.res]
        /\ tocDisplay' = g.display
        /\ headerToggle' = h.headerToggle
        /\ ariaExpanded' = h.ariaExpanded
        /\ Commit([st EXCEPT !.collapsed = h.collapsed,
                             !.observerPending = h.observerPending])
  /\ phase' = "ready"
  /\ UNCHANGED <<innerWidth, features, articleContent, tocNav, tocContainer, isMobile,
                 tocHeader, now, inThrottle, lastRun, clicks, scrolls, waits, panelVars,
                 cliVars>>

\* The MutationObserver set up by setupHeaderToggle.
ObserverCallback ==
  /\ observerPending
  /\ observerPending' = FALSE
  /\ ariaExpanded' = IF headerToggle
                       THEN (IF collapsed THEN "false" ELSE "true")
                       ELSE ariaExpanded
  /\ calls' = <<>>
  /\ UNCHANGED <<pageVars, managerVars, tocLinks, tocDisplay, collapsed, tocHeader,
                 headerToggle, loopVars, phase, clicks, scrolls, waits, scrollCount,
                 completed, polled, panelVars, cliVars>>

\* The click listener of #toc-nav, for a click on the link at position link.
\* Every generated link has an href "#id" and its target exists.
ClickLink(link) ==
  /\ Ready
  /\ tocNav
  /\ clicks > 0
  /\ link \in DOMAIN tocLinks
  /\ LET targetElement == GetElementById(doc, tocLinks[link].href)
         s1 == [Cur EXCEPT !.tocLinks[link].navigating = TRUE]
     IN IF targetElement = 0 THEN Commit(Cur)
        ELSE IF isMobile /\ tocContainer
          THEN LET s2 == SetCollapsed(s1, TRUE)
               IN Commit([s2 EXCEPT !.timers = AddTimer(s2.timers,
                            Timer(now + MobileMenuDelay, "menu", link, 0, targetElement, 0))])
          ELSE Commit(ScrollToElement(s1, targetElement, link))
  /\ clicks' = clicks - 1
  /\ UNCHANGED <<restVars, now, inThrottle, lastRun, scrolls, waits>>

\* The positions a user scroll may stop at.
ScrollPositions == {0, 200, 400}

\* throttledScroll, the throttle(..., 16) of updateActiveTOC bound to the
\* scroll event by bindEvents.  [st, inThrottle, lastRun].
ThrottledScrollEveryEvent(st) ==
  LET s1 == UpdateActiveTOC(st)
  IN [st |-> [s1 EXCEPT !.timers = AddTimer(s1.timers,
                Timer(now + ThrottleLimit, "throttle", 0, 0, 0, 0))],
      inThrottle |-> TRUE, lastRun |-> now]

ThrottledScroll(st) ==
  IF ~inThrottle
    THEN LET s1 == UpdateActiveTOC(st)
         IN [st |-> [s1 EXCEPT !.timers = AddTimer(s1.timers,
                       Timer(now + ThrottleLimit, "throttle", 0, 0, 0, 0))],
             inThrottle |-> TRUE, lastRun |-> now]
    ELSE [st |-> st, inThrottle |-> inThrottle, lastRun |-> lastRun]

\* The user scrolls the window to y and the scroll event is dispatched; a
\* running smooth scroll is abandoned.
Scroll(y) ==
  /\ Ready
  /\ scrolls > 0
  /\ y \in ScrollPositions \ {scrollY}
  /\ LET r == ThrottledScroll([Cur EXCEPT !.scrollY = y, !.smoothTarget = -1,
                                          !.moved = TRUE, !.scrollPending = FALSE])
     IN Commit(r.st) /\ inThrottle' = r.inThrottle /\ lastRun' = r.lastRun
  /\ scrolls' = scrolls - 1
  /\ UNCHANGED <<restVars, now, clicks, waits>>

\* The smooth scroll the browser is animating reaches its destination and
\* the scroll event is dispatched.
SmoothArrive ==
  /\ Ready
  /\ smoothTarget # -1
  /\ LET r == ThrottledScroll([Cur EXCEPT !.scrollY = smoothTarget, !.smoothTarget = -1,
                                          !.moved = TRUE, !.scrollPending = FALSE])
     IN Commit(r.st) /\ inThrottle' = r.inThrottle /\ lastRun' = r.lastRun
  /\ UNCHANGED <<restVars, now, clicks, scrolls, waits>>

\* The distance a smooth scroll covers between two scroll events, when the
\* browser animates it in steps.
SmoothStep == 4

\* The smooth scroll the browser is animating moves the window one step
\* towards its destination and the scroll event is dispatched.
SmoothAdvance ==
  /\ Ready
  /\ smoothTarget # -1
  /\ Abs(smoothTarget - scrollY) > SmoothStep
  /\ LET y == IF smoothTarget > scrollY THEN scrollY + SmoothStep
                                        ELSE scrollY - SmoothStep
         r == ThrottledScroll([Cur EXCEPT !.scrollY = y, !.moved = TRUE,
                                          !.scrollPending = FALSE])
     IN Commit(r.st) /\ inThrottle' = r.inThrottle /\ lastRun' = r.lastRun
  /\ UNCHANGED <<restVars, now, clicks, scrolls, waits>>

\* The scroll event of a jump made by the script (scrollTo, scrollBy) is
\* dispatched.
ScrollEvent ==
  /\ Ready
  /\ scrollPending
  /\ LET r == ThrottledScroll([Cur EXCEPT !.scrollPending = FALSE])
     IN Commit(r.st) /\ inThrottle' = r.inThrottle /\ lastRun' = r.lastRun
  /\ UNCHANGED <<restVars, now, clicks, scrolls, waits>>

\* The scrollend listeners added by scrollToElement ({once: true}), run in
\* the order they were added.
RECURSIVE RunScrollEndListeners(_, _)
RunScrollEndListeners(st, ls) ==
  IF ls = <<>> THEN st
  ELSE RunScrollEndListeners(OnScrollComplete(st, Head(ls).link, Head(ls).scroll), Tail(ls))

\* The window has stopped scrolling: a scrollend event is dispatched.
ScrollEnd ==
  /\ Ready
  /\ features.onscrollend
  /\ moved
  /\ smoothTarget = -1
  /\ ~scrollPending
  /\ Commit(RunScrollEndListeners(
       [Cur EXCEPT !.moved = FALSE, !.scrollEndListeners = <<>>], scrollEndListeners))
  /\ UNCHANGED <<restVars, now, inThrottle, lastRun, clicks, scrolls, waits>>

\* The timer at the head of the queue is due.
Due(kind) ==
  /\ Ready
  /\ timers # <<>>
  /\ Head(timers).at <= now
  /\ Head(timers).kind = kind

Popped == [Cur EXCEPT !.timers = Tail(timers)]

\* scrollToElement, the safety timeout (3000 ms).
FireSafety ==
  /\ Due("safety")
  /\ Commit([Popped EXCEPT !.isScrolling = FALSE])
  /\ UNCHANGED <<restVars, now, inThrottle, lastRun, clicks, scrolls, waits>>

\* The click listener, mobile: the scroll delayed by 150 ms.
FireMenu ==
  /\ Due("menu")
  /\ Commit(ScrollToElement(Popped, Head(timers).pos, Head(timers).link))
  /\ UNCHANGED <<restVars, now, inThrottle, lastRun, clicks, scrolls, waits>>

\* scrollToElement, mobile: the offset correction after 320 ms.
FireAdjust ==
  /\ Due("adjust")
  /\ Commit(OnScrollComplete(JumpTo(Popped, scrollY - Head(timers).pos),
                             Head(timers).link, Head(timers).scroll))
  /\ UNCHANGED <<restVars, now, inThrottle, lastRun, clicks, scrolls, waits>>

\* scrollToElement, desktop: the position check after 240 ms.
FireCheck ==
  /\ Due("check")
  /\ LET targetPosition == Head(timers).pos
     IN IF Abs(scrollY - targetPosition) < DesktopCheckTolerance
          THEN Commit(OnScrollComplete(JumpTo(Popped, targetPosition),
                                       Head(timers).link, Head(timers).scroll))
          ELSE Commit(Popped)
  /\ UNCHANGED <<restVars, now, inThrottle, lastRun, clicks, scrolls, waits>>

\* waitForScrollEnd, checkScroll: one poll.
FirePollNoLimit ==
  /\ Due("poll")
  /\ LET t == Head(timers)
         callback == [OnScrollComplete(Popped, t.link, t.scroll)
                        EXCEPT !.polled = Append(polled, t.scroll)]
     IN IF Abs(scrollY - t.pos) < 1
          THEN Commit(callback)
          ELSE Commit([Popped EXCEPT !.timers = AddTimer(Tail(timers),
                         Timer(now + ScrollPollInterval, "poll", t.link, t.scroll,
                               scrollY, t.count + 1))])
  /\ UNCHANGED <<restVars, now, inThrottle, lastRun, clicks, scrolls, waits>>

FirePoll ==
  /\ Due("poll")
  /\ LET t == Head(timers)
         scrollCheckCount == t.count + 1
         callback == [OnScrollComplete(Popped, t.link, t.scroll)
                        EXCEPT !.polled = Append(polled, t.scroll)]
     IN IF Abs(scrollY - t.pos) < 1
          THEN Commit(callback)
          ELSE IF scrollCheckCount < maxChecks
            THEN Commit([Popped EXCEPT !.timers = AddTimer(Tail(timers),
                           Timer(now + ScrollPollInterval, "poll", t.link, t.scroll,
                                 scrollY, scrollCheckCount))])
            ELSE Commit(callback)
  /\ UNCHANGED <<restVars, now, inThrottle, lastRun, clicks, scrolls, waits>>

\* throttle: the timer that ends the window.
FireThrottle ==
  /\ Due("throttle")
  /\ Commit(Popped)
  /\ inThrottle' = FALSE
  /\ UNCHANGED <<restVars, now, lastRun, clicks, scrolls, waits>>

\* Time passes up to the next deadline.
Tick ==
  /\ Ready
  /\ timers # <<>>
  /\ Head(timers).at > now
  /\ now' = Head(timers).at
  /\ calls' = <<>>
  /\ UNCHANGED <<pageVars, managerVars, domVars, timers, scrollEndListeners, inThrottle,
                 lastRun,
                 phase, clicks, scrolls, waits, scrollCount, completed, polled, panelVars,
                 cliVars>>

\* Time passes with no timer coming due.
WaitStep == 1000

Wait ==
  /\ Ready
  /\ waits > 0
  /\ timers # <<>> => now + WaitStep < Head(timers).at
  /\ now' = now + WaitStep
  /\ waits' = waits - 1
  /\ calls' = <<>>
  /\ UNCHANGED <<pageVars, managerVars, domVars, timers, scrollEndListeners, inThrottle,
                 lastRun,
                 phase, clicks, scrolls, scrollCount, completed, polled, panelVars, cliVars>>

(***************************************************************************)
(* The header of the panel, the keyboard and the resize of the window.     *)
(***************************************************************************)
\* The largest movement of a touch that is still a tap (px).
TapThreshold == 10

\* The wait of the debounced resize handler (ms).
ResizeDebounce == 250

\* The header and the panel, as the record SetupMobileInteraction works on.
Panel ==
  [collapsed |-> collapsed, headerToggle |-> headerToggle,
   ariaExpanded |-> ariaExpanded, observerPending |-> observerPending]

SetPanel(h) ==
  /\ collapsed' = h.collapsed
  /\ headerToggle' = h.headerToggle
  /\ ariaExpanded' = h.ariaExpanded
  /\ observerPending' = h.observerPending

\* What an event on the header or a key leaves alone, besides the closures.
headerFrame == <<pageVars, managerVars, tocLinks, tocDisplay, tocHeader, loopVars, phase,
                 clicks, scrolls, waits, scrollCount, completed, polled, timeout, timerIds,
                 lastResize, setupRuns, cliVars>>

\* The same, for the events that are no keydown on the header.
pointerFrame == <<headerFrame, lastKey>>

\* toggleCollapse of setupHeaderToggle: the class collapsed of #toc is
\* toggled and aria-expanded of the header set to the state the panel had.
ToggleCollapseNever(h) == h

ToggleCollapse(h) ==
  IF ~tocContainer THEN h
  ELSE [h EXCEPT !.collapsed = ~h.collapsed,
                 !.ariaExpanded = IF h.collapsed THEN "true" ELSE "false",
                 !.observerPending = TRUE]

\* The points a finger may be at.
TouchXs == {5, 16}

TouchYs == {5, 15, 16}

\* handleTouchStart.
TouchStart(x, y) ==
  /\ Ready
  /\ headerToggle
  /\ inputs > 0
  /\ touches = <<>>
  /\ touchStartY' = y
  /\ touchStartX' = x
  /\ isTap' = TRUE
  /\ touches' = <<[x |-> x, y |-> y]>>
  /\ inputs' = inputs - 1
  /\ calls' = <<>>
  /\ UNCHANGED <<pointerFrame, collapsed, headerToggle, ariaExpanded, observerPending>>

\* handleTouchMove: isTap after a move to (x, y).
IsTapAfterMoveCurrent(tap, x, y) ==
  ~(Abs(y - touchStartY) > TapThreshold \/ Abs(x - touchStartX) > TapThreshold)

IsTapAfterMove(tap, x, y) ==
  LET deltaY == Abs(y - touchStartY)
      deltaX == Abs(x - touchStartX)
  IN IF deltaY > TapThreshold \/ deltaX > TapThreshold THEN FALSE ELSE tap

TouchMove(x, y) ==
  /\ Ready
  /\ inputs > 0
  /\ touches # <<>>
  /\ isTap' = IsTapAfterMove(isTap, x, y)
  /\ touches' = Append(touches, [x |-> x, y |-> y])
  /\ inputs' = inputs - 1
  /\ calls' = <<>>
  /\ UNCHANGED <<pointerFrame, collapsed, headerToggle, ariaExpanded, observerPending,
                 touchStartY, touchStartX>>

\* handleTouchEnd: a tap toggles the panel (and, the default being
\* prevented, is followed by no click).
TouchEnd ==
  /\ Ready
  /\ touches # <<>>
  /\ SetPanel(IF isTap THEN ToggleCollapse(Panel) ELSE Panel)
  /\ touches' = <<>>
  /\ calls' = <<>>
  /\ UNCHANGED <<pointerFrame, touchStartY, touchStartX, isTap, inputs>>

\* The click listener of the header.
HeaderClick ==
  /\ Ready
  /\ headerToggle
  /\ inputs > 0
  /\ SetPanel(IF ~isMobile THEN Panel ELSE ToggleCollapse(Panel))
  /\ inputs' = inputs - 1
  /\ calls' = <<>>
  /\ UNCHANGED <<pointerFrame, touchStartY, touchStartX, isTap, touches>>

\* The keys of the model.
Keys == {"Enter", " ", "Escape", "Tab"}

\* A keydown, on the header (which has the focus only while it carries the
\* handlers, that give it its tabindex) or elsewhere in the document: the
\* keydown listener of the header, then, the event bubbling, the one
\* bindEvents adds to the document.
HeaderKeyDown(h, key) == IF key \in {"Enter", " "} THEN ToggleCollapse(h) ELSE h

DocumentKeyDown(h, key) ==
  IF key = "Escape" /\ isMobile /\ tocContainer
    THEN [h EXCEPT !.collapsed = TRUE, !.observerPending = h.observerPending \/ headerToggle]
    ELSE h

KeyDown(key, onHeader) ==
  /\ Ready
  /\ inputs > 0
  /\ onHeader => headerToggle
  /\ SetPanel(DocumentKeyDown(IF onHeader THEN HeaderKeyDown(Panel, key) ELSE Panel, key))
  /\ lastKey' = IF onHeader THEN key ELSE lastKey
  /\ inputs' = inputs - 1
  /\ calls' = <<>>
  /\ UNCHANGED <<headerFrame, touchStartY, touchStartX, isTap, touches>>

\* The widths the window may be resized to.
Widths == {1280, 1024, 768}

\* clearTimeout(id).  The timer of the debounced handler carries its id in
\* count.
ClearTimeoutNothing(ts, id) == ts

ClearTimeout(ts, id) ==
  SelectSeq(ts, LAMBDA t : ~(t.kind = "resize" /\ t.count = id))

\* The window is resized to width w and the resize event dispatched:
\* debouncedResize, the debounce(..., 250) bound to it by bindEvents.
Resize(w) ==
  /\ Ready
  /\ inputs > 0
  /\ w \in Widths \ {innerWidth}
  /\ innerWidth' = w
  /\ LET ts == IF timeout # 0 THEN ClearTimeout(timers, timeout) ELSE timers
     IN timers' = AddTimer(ts, Timer(now + ResizeDebounce, "resize", 0, 0, 0, timerIds + 1))
  /\ timeout' = timerIds + 1
  /\ timerIds' = timerIds + 1
  /\ lastResize' = now
  /\ setupRuns' = 0
  /\ inputs' = inputs - 1
  /\ calls' = <<>>
  /\ UNCHANGED <<doc, options, features, scrollY, smoothTarget, moved, scrollPending,
                 managerVars, domVars, now, scrollEndListeners, inThrottle, lastRun, phase,
                 clicks, scrolls, waits, scrollCount, completed, polled, touchStartY, touchStartX,
                 isTap, touches, lastKey, cliVars>>

\* updateDeviceType.
UpdateDeviceType(width) == width <= MobileMaxWidth

\* The timer of the debounced handler: updateDeviceType, then
\* setupMobileInteraction.
FireResize ==
  /\ Due("resize")
  /\ timers' = Tail(timers)
  /\ isMobile' = UpdateDeviceType(innerWidth)
  /\ SetPanel(SetupMobileInteraction(Panel, UpdateDeviceType(innerWidth), innerWidth,
                                     Len(tocItems)))
  /\ setupRuns' = setupRuns + 1
  /\ calls' = <<>>
  /\ UNCHANGED <<pageVars, tocItems, currentActiveIndex, articleContent, tocNav,
                 tocContainer, isScrolling, lastScrollTimestamp, tocLinks, tocDisplay,
                 tocHeader, now, scrollEndListeners, inThrottle, lastRun, phase, clicks,
                 scrolls, waits, scrollCount, completed, polled, touchStartY, touchStartX,
                 isTap, timeout, timerIds, inputs, touches, lastResize, lastKey, cliVars>>

(***************************************************************************)
(* cli.sh: definitions.                                                     *)
(***************************************************************************)
Commands == {"init", "update"}

\* What follows the command on the command line: options, and two values, a
\* directory that exists and a path that does not.
OptionTokens == {"-h", "-n", "-d", "-p", "-w", "-x", "sites/blog", "nodir"}

Tokens == Commands \cup OptionTokens

\* $(pwd) after cd "${PROJECT_ROOT}".
Pwd == "/srv/site"

\* The components of a path.
PathComponents(p) ==
  IF p = "sites/blog" THEN <<"sites", "blog">>
  ELSE IF p = Pwd THEN <<"srv", "site">>
  ELSE <<p>>

\* basename.
Basename(p) == PathComponents(p)[Len(PathComponents(p))]

\* git rev-parse --short HEAD in the clone of a branch.
ShortSha(branch) ==
  CASE branch = "main" -> "sha:main"
    [] branch = "-h" -> "sha:-h"
    [] branch = "-n" -> "sha:-n"
    [] branch = "-d" -> "sha:-d"
    [] branch = "-p" -> "sha:-p"
    [] branch = "-w" -> "sha:-w"
    [] branch = "-x" -> "sha:-x"
    [] branch = "sites/blog" -> "sha:sites/blog"
    [] branch = "nodir" -> "sha:nodir"
    [] OTHER -> "sha:"

\* $(date +%Y-%m-%dT%H:%M:%S).
Date == "2026-01-01T00:00:00"

NoConfig == [present |-> FALSE]

\* The 12 sync_files calls of sync_walle_files: the kind the source has in
\* the design system.
SyncSources ==
  <<"dir", "dir", "dir", "dir", "dir", "dir", "file",
    "file", "file", "file", "file", "file">>

\* catch, the EXIT trap: an [ERROR] line for a non-zero status, and TEMP_DIR
\* removed.  [errors, TEMP_DIR].
CatchNoCleanup(code, errors, tmp) ==
  [errors |-> IF code # 0 THEN errors + 1 ELSE errors, TEMP_DIR |-> tmp]

Catch(code, errors, tmp) ==
  [errors |-> IF code # 0 THEN errors + 1 ELSE errors,
   TEMP_DIR |-> IF tmp THEN FALSE ELSE tmp]

\* exit code: the EXIT trap runs and the script ends.  o is the output so far.
Exit(code, o) ==
  LET c == Catch(code, o.errors, TEMP_DIR)
  IN /\ pc' = "exited"
     /\ exitCode' = code
     /\ out' = [o EXCEPT !.errors = c.errors]
     /\ TEMP_DIR' = c.TEMP_DIR

\* print_error: an [ERROR] line, then exit 1.
PrintError(o) == Exit(1, [o EXCEPT !.errors = o.errors + 1])

\* A step of init or update that runs although an earlier command failed.
StepAfter == afterFail' = (afterFail \/ failed # {})

\* main, the loop over the command line: the last of init / update is the
\* command, -h calls usage, which is not defined (status 127, and main runs
\* under set -e), everything else is kept for the command.
RECURSIVE MainLoop(_, _)
MainLoop(a, acc) ==
  IF a = <<>> THEN acc
  ELSE IF Head(a) \in Commands THEN MainLoop(Tail(a), [acc EXCEPT !.command = Head(a)])
  ELSE IF Head(a) \in {"-h", "--help"} THEN [acc EXCEPT !.status = 127]
  ELSE MainLoop(Tail(a), [acc EXCEPT !.args = Append(acc.args, Head(a))])

Main ==
  /\ pc = "main"
  /\ LET m == MainLoop(argv, [command |-> "", args |-> <<>>, status |-> 0])
     IN /\ command' = m.command
        /\ args' = m.args
        /\ IF m.status # 0 THEN Exit(m.status, out)
           ELSE /\ pc' = "dispatch"
                /\ UNCHANGED <<out, exitCode, TEMP_DIR>>
  /\ UNCHANGED <<argv, PROJECT_NAME, DIR_PATH, PROJECT_PATH, GITHUB_WALLE_VERSION_BRANCH,
                 GITHUB_WALLE_VERSION_SHA, dirs, config, touched, synced, failed,
                 afterFail, tocVars>>

\* main, `if ! ${command} "${args[@]}"`: without a command the arguments are
\* run as a command (none of the tokens is one: status 127, inverted by !,
\* print_error); without arguments either, the empty command succeeds.
Dispatch ==
  /\ pc = "dispatch"
  /\ IF command = "init"
       THEN /\ pc' = "init.parse"
            /\ DIR_PATH' = Pwd
            /\ UNCHANGED <<PROJECT_PATH, out, exitCode, TEMP_DIR>>
     ELSE IF command = "update"
       THEN /\ pc' = "update.parse"
            /\ PROJECT_PATH' = Pwd
            /\ UNCHANGED <<DIR_PATH, out, exitCode, TEMP_DIR>>
     ELSE IF args = <<>>
       THEN /\ pc' = "main.finish"
            /\ UNCHANGED <<DIR_PATH, PROJECT_PATH, out, exitCode, TEMP_DIR>>
     ELSE /\ PrintError(out)
          /\ UNCHANGED <<DIR_PATH, PROJECT_PATH>>
  /\ UNCHANGED <<argv, command, args, PROJECT_NAME, GITHUB_WALLE_VERSION_BRANCH,
                 GITHUB_WALLE_VERSION_SHA, dirs, config, touched, synced, failed,
                 afterFail, tocVars>>

\* "${2}" and shift 2: the value of an option is the next argument (empty
\* when there is none); shift 2 fails and shifts nothing when one argument
\* is left, and the failure is ignored.
Arg2(a) == IF Len(a) >= 2 THEN a[2] ELSE ""

Shift2(a) == IF Len(a) >= 2 THEN SubSeq(a, 3, Len(a)) ELSE a

\* init, one turn of the option loop.
InitParse ==
  /\ pc = "init.parse"
  /\ IF args = <<>>
       THEN /\ pc' = "init.check"
            /\ UNCHANGED <<args, PROJECT_NAME, DIR_PATH, out, exitCode, TEMP_DIR>>
     ELSE IF Head(args) \in {"-n", "--project-name"}
       THEN /\ PROJECT_NAME' = Arg2(args)
            /\ args' = Shift2(args)
            /\ UNCHANGED <<pc, DIR_PATH, out, exitCode, TEMP_DIR>>
     ELSE IF Head(args) \in {"-d", "--dir-path"}
       THEN /\ DIR_PATH' = Arg2(args)
            /\ args' = Shift2(args)
            /\ UNCHANGED <<pc, PROJECT_NAME, out, exitCode, TEMP_DIR>>
     ELSE IF Head(args) \in {"-h", "--help"}
       THEN /\ Exit(0, [out EXCEPT !.usage = "init"])
            /\ UNCHANGED <<args, PROJECT_NAME, DIR_PATH>>
     ELSE /\ PrintError([out EXCEPT !.usage = "init"])
          /\ UNCHANGED <<args, PROJECT_NAME, DIR_PATH>>
  /\ UNCHANGED <<argv, command, PROJECT_PATH, GITHUB_WALLE_VERSION_BRANCH,
                 GITHUB_WALLE_VERSION_SHA, dirs, config, touched, synced, failed,
                 afterFail, tocVars>>

\* init, the test of the project name.
InitCheck ==
  /\ pc = "init.check"
  /\ IF PROJECT_NAME = "" THEN PrintError(out)
     ELSE /\ pc' = "init.mkdir"
          /\ UNCHANGED <<out, exitCode, TEMP_DIR>>
  /\ UNCHANGED <<argv, command, args, PROJECT_NAME, DIR_PATH, PROJECT_PATH,
                 GITHUB_WALLE_VERSION_BRANCH, GITHUB_WALLE_VERSION_SHA, dirs, config,
                 touched, synced, failed, afterFail, tocVars>>

\* init, mkdir -p "${DIR_PATH}" when the directory is missing; its status is
\* not tested.
InitMkdir ==
  /\ pc = "init.mkdir"
  /\ IF DIR_PATH \in dirs THEN UNCHANGED <<dirs, failed>>
     ELSE \E ok \in BOOLEAN :
            IF ok THEN /\ dirs' = dirs \cup {DIR_PATH}
                       /\ UNCHANGED failed
            ELSE /\ failed' = failed \cup {"mkdir"}
                 /\ UNCHANGED dirs
  /\ pc' = "init.download"
  /\ UNCHANGED <<argv, command, args, PROJECT_NAME, DIR_PATH, PROJECT_PATH,
                 GITHUB_WALLE_VERSION_BRANCH, GITHUB_WALLE_VERSION_SHA, TEMP_DIR, config,
                 touched, synced, out, exitCode, afterFail, tocVars>>

\* download_project: git clone -b version; a failure is tested and fatal.
\* After a clone, GITHUB_WALLE_VERSION_SHA is the short SHA of its HEAD.
\* intoProject: the clone is made in the project directory (init) and not in
\* TEMP_DIR (update).
DownloadProject(version, intoProject, nextPc) ==
  /\ StepAfter
  /\ \E ok \in BOOLEAN :
       IF ok
         THEN /\ GITHUB_WALLE_VERSION_SHA' = ShortSha(version)
              /\ touched' = (touched \/ intoProject)
              /\ pc' = nextPc
              /\ UNCHANGED <<failed, out, exitCode, TEMP_DIR>>
         ELSE /\ failed' = failed \cup {"git clone"}
              /\ PrintError(out)
              /\ UNCHANGED <<GITHUB_WALLE_VERSION_SHA, touched>>

\* create_config_file project_name path [source_version]: "${3-main}" is
\* main only when the third argument is not given.  given: it is.
ConfigRecordNameFromVersion(project_name, given, source_version) ==
  [present |-> TRUE, name |-> IF given THEN "main" ELSE project_name,
   walleVersion |-> IF given THEN source_version ELSE "main", updatedAt |-> Date]

ConfigRecord(project_name, given, source_version) ==
  [present |-> TRUE, name |-> project_name,
   walleVersion |-> IF given THEN source_version ELSE "main", updatedAt |-> Date]

CreateConfigFile(project_name, given, source_version, nextPc) ==
  /\ StepAfter
  /\ \E ok \in BOOLEAN :
       IF ok
         THEN /\ config' = ConfigRecord(project_name, given, source_version)
              /\ touched' = TRUE
              /\ pc' = nextPc
              /\ UNCHANGED <<out, exitCode, TEMP_DIR>>
         ELSE /\ PrintError(out)
              /\ UNCHANGED <<config, touched>>

\* init: download_project "${DIR_PATH}/${PROJECT_NAME}".
InitDownload ==
  /\ pc = "init.download"
  /\ DownloadProject("main", TRUE, "init.config")
  /\ UNCHANGED <<argv, command, args, PROJECT_NAME, DIR_PATH, PROJECT_PATH,
                 GITHUB_WALLE_VERSION_BRANCH, dirs, config, synced, tocVars>>

\* init: create_config_file "${PROJECT_NAME}" "${DIR_PATH}/${PROJECT_NAME}".
InitConfig ==
  /\ pc = "init.config"
  /\ CreateConfigFile(PROJECT_NAME, FALSE, "", "init.done")
  /\ UNCHANGED <<argv, command, args, PROJECT_NAME, DIR_PATH, PROJECT_PATH,
                 GITHUB_WALLE_VERSION_BRANCH, GITHUB_WALLE_VERSION_SHA, dirs, synced,
                 failed, tocVars>>

\* init / update: the closing print_info; the function returns 0.
CommandDone ==
  /\ pc \in {"init.done", "update.done"}
  /\ StepAfter
  /\ out' = [out EXCEPT !.success = TRUE]
  /\ pc' = "main.finish"
  /\ UNCHANGED <<argv, command, args, PROJECT_NAME, DIR_PATH, PROJECT_PATH,
                 GITHUB_WALLE_VERSION_BRANCH, GITHUB_WALLE_VERSION_SHA, TEMP_DIR, dirs,
                 config, touched, synced, exitCode, failed, tocVars>>

\* main: rm -rf "${TEMP_DIR}", and the script ends with status 0.
MainFinish ==
  /\ pc = "main.finish"
  /\ LET c == Catch(0, out.errors, FALSE)
     IN /\ TEMP_DIR' = c.TEMP_DIR
        /\ out' = [out EXCEPT !.errors = c.errors]
  /\ pc' = "exited"
  /\ exitCode' = 0
  /\ UNCHANGED <<argv, command, args, PROJECT_NAME, DIR_PATH, PROJECT_PATH,
                 GITHUB_WALLE_VERSION_BRANCH, GITHUB_WALLE_VERSION_SHA, dirs, config,
                 touched, synced, failed, afterFail, tocVars>>

\* update, one turn of the option loop.  -h shows the usage of init.
UpdateParse ==
  /\ pc = "update.parse"
  /\ IF args = <<>>
       THEN /\ pc' = "update.check"
            /\ UNCHANGED <<args, PROJECT_PATH, GITHUB_WALLE_VERSION_BRANCH, out, exitCode,
                           TEMP_DIR>>
     ELSE IF Head(args) \in {"-w", "--walle-version"}
       THEN /\ GITHUB_WALLE_VERSION_BRANCH' = Arg2(args)
            /\ args' = Shift2(args)
            /\ UNCHANGED <<pc, PROJECT_PATH, out, exitCode, TEMP_DIR>>
     ELSE IF Head(args) \in {"-p", "--project-path"}
       THEN /\ PROJECT_PATH' = Arg2(args)
            /\ args' = Shift2(args)
            /\ UNCHANGED <<pc, GITHUB_WALLE_VERSION_BRANCH, out, exitCode, TEMP_DIR>>
     ELSE IF Head(args) \in {"-h", "--help"}
       THEN /\ Exit(0, [out EXCEPT !.usage = "init"])
            /\ UNCHANGED <<args, PROJECT_PATH, GITHUB_WALLE_VERSION_BRANCH>>
     ELSE /\ PrintError([out EXCEPT !.usage = "update"])
          /\ UNCHANGED <<args, PROJECT_PATH, GITHUB_WALLE_VERSION_BRANCH>>
  /\ UNCHANGED <<argv, command, PROJECT_NAME, DIR_PATH, GITHUB_WALLE_VERSION_SHA, dirs,
                 config, touched, synced, failed, afterFail, tocVars>>

\* update, the tests of the version and of the project path.
UpdateCheck ==
  /\ pc = "update.check"
  /\ IF GITHUB_WALLE_VERSION_BRANCH = "" THEN PrintError(out)
     ELSE IF PROJECT_PATH \notin dirs THEN PrintError(out)
     ELSE /\ pc' = "update.download"
          /\ UNCHANGED <<out, exitCode, TEMP_DIR>>
  /\ UNCHANGED <<argv, command, args, PROJECT_NAME, DIR_PATH, PROJECT_PATH,
                 GITHUB_WALLE_VERSION_BRANCH, GITHUB_WALLE_VERSION_SHA, dirs, config,
                 touched, synced, failed, afterFail, tocVars>>

\* update: download_project "${TEMP_DIR}" "${GITHUB_WALLE_VERSION_BRANCH}".
UpdateDownload ==
  /\ pc = "update.download"
  /\ DownloadProject(GITHUB_WALLE_VERSION_BRANCH, FALSE, "update.sync")
  /\ UNCHANGED <<argv, command, args, PROJECT_NAME, DIR_PATH, PROJECT_PATH,
                 GITHUB_WALLE_VERSION_BRANCH, dirs, config, synced, tocVars>>

\* sync_walle_files, one sync_files call.  A source that is neither a
\* directory nor a file is fatal; otherwise the target is removed when it
\* exists and the source copied, and the status of cp is not tested.
SyncFiles ==
  /\ pc = "update.sync"
  /\ StepAfter
  /\ \E source \in {SyncSources[synced + 1], "none"}, existed \in BOOLEAN, ok \in BOOLEAN :
       IF source = "none"
         THEN /\ PrintError(out)
              /\ UNCHANGED <<touched, synced, failed>>
         ELSE /\ touched' = (touched \/ existed \/ ok)
              /\ failed' = IF ok THEN failed ELSE failed \cup {"cp"}
              /\ synced' = synced + 1
              /\ pc' = IF synced + 1 = Len(SyncSources) THEN "update.config" ELSE pc
              /\ UNCHANGED <<out, exitCode, TEMP_DIR>>
  /\ UNCHANGED <<argv, command, args, PROJECT_NAME, DIR_PATH, PROJECT_PATH,
                 GITHUB_WALLE_VERSION_BRANCH, GITHUB_WALLE_VERSION_SHA, dirs, config,
                 tocVars>>

\* update: create_config_file "$(basename "${PROJECT_PATH}")" "${PROJECT_PATH}"
\* "${GITHUB_WALLE_VERSION_SHA}".
UpdateConfig ==
  /\ pc = "update.config"
  /\ CreateConfigFile(Basename(PROJECT_PATH), TRUE, GITHUB_WALLE_VERSION_SHA, "update.done")
  /\ UNCHANGED <<argv, command, args, PROJECT_NAME, DIR_PATH, PROJECT_PATH,
                 GITHUB_WALLE_VERSION_BRANCH, GITHUB_WALLE_VERSION_SHA, dirs, synced,
                 failed, tocVars>>

(***************************************************************************)
(* Initial states.                                                         *)
(***************************************************************************)
Element(tag, id, text, skipAttr, classes, selfContainer, inContainer, top, scrollMargin) ==
  [tag |-> tag, id |-> id, text |-> text, skipAttr |-> skipAttr, classes |-> classes,
   selfContainer |-> selfContainer, inContainer |-> inContainer, top |-> top,
   scrollMargin |-> scrollMargin]

Px0 == <<"0", "p", "x">>

Px80 == <<"8", "0", "p", "x">>

DefaultSelector == [tags |-> {"H2", "H3"}, class |-> ""]

DefaultOptions ==
  [headingSelector |-> DefaultSelector, excludeSelectors |-> <<>>,
   excludeTextPatterns |-> <<>>]

RegExp(src, global) == [src |-> src, global |-> global, lastIndex |-> 0]

\* The state after the constructor, for a page and a browser.
Constructed(d, o, width, f, y, present, header) ==
  /\ doc = d
  /\ options = o
  /\ innerWidth = width
  /\ features = f
  /\ scrollY = y
  /\ smoothTarget = -1
  /\ moved = FALSE
  /\ scrollPending = FALSE
  /\ tocItems = <<>>
  /\ currentActiveIndex = -1
  /\ articleContent = present.articleContent
  /\ tocNav = present.tocNav
  /\ tocContainer = present.tocContainer
  /\ isScrolling = FALSE
  /\ isMobile = (width <= MobileMaxWidth)
  /\ lastScrollTimestamp = 0
  /\ tocLinks = <<>>
  /\ tocDisplay = ""
  /\ collapsed = FALSE
  /\ tocHeader = header
  /\ headerToggle = FALSE
  /\ ariaExpanded = "none"
  /\ observerPending = FALSE
  /\ now = 0
  /\ timers = <<>>
  /\ scrollEndListeners = <<>>
  /\ inThrottle = FALSE
  /\ lastRun = -1
  /\ phase = "constructed"
  /\ scrollCount = 0
  /\ completed = {}
  /\ polled = <<>>
  /\ calls = <<>>
  /\ touchStartY = 0
  /\ touchStartX = 0
  /\ isTap = TRUE
  /\ timeout = 0
  /\ timerIds = 0
  /\ touches = <<>>
  /\ lastResize = -1
  /\ setupRuns = 0
  /\ lastKey = ""

AllPresent == [articleContent |-> TRUE, tocNav |-> TRUE, tocContainer |-> TRUE]

Modern == [scrollBehavior |-> TRUE, onscrollend |-> TRUE]

\* The events a behaviour may take.
Budget(c, sc, w) == clicks = c /\ scrolls = sc /\ waits = w /\ inputs = 0

\* The script before its first command, for a command line.
Started(a, c) ==
  /\ argv = a
  /\ pc = "main"
  /\ command = ""
  /\ args = <<>>
  /\ PROJECT_NAME = ""
  /\ DIR_PATH = ""
  /\ PROJECT_PATH = ""
  /\ GITHUB_WALLE_VERSION_BRANCH = "main"
  /\ GITHUB_WALLE_VERSION_SHA = ""
  /\ TEMP_DIR = TRUE
  /\ dirs = {Pwd, "sites/blog"}
  /\ config = c
  /\ touched = FALSE
  /\ synced = 0
  /\ out = [errors |-> 0, usage |-> "", success |-> FALSE]
  /\ exitCode = -1
  /\ failed = {}
  /\ afterFail = FALSE

(***************************************************************************)
(* SpecGen: init() on every article of at most MaxHeadings elements.       *)
(***************************************************************************)
TextA == <<"a">>

GenElements ==
  {Element(tag, <<>>, TextA, FALSE, {}, FALSE, FALSE, 100, Px0) : tag \in {"H2", "H3", "H4"}}
  \cup {Element("H2", <<>>, t, FALSE, {}, FALSE, FALSE, 100, Px0) :
          t \in {<<"b">>, <<"a", " ">>, <<"a", " ", "b">>}}
  \cup {Element("H2", <<"x">>, TextA, FALSE, {}, FALSE, FALSE, 100, Px0),
        Element("H2", <<>>, TextA, TRUE, {}, FALSE, FALSE, 100, Px0),
        Element("H2", <<>>, TextA, FALSE, {SkipClass}, FALSE, FALSE, 100, Px0),
        Element("H2", <<>>, TextA, FALSE, {"note"}, FALSE, FALSE, 100, Px0),
        Element("H2", <<>>, TextA, FALSE, {}, TRUE, FALSE, 100, Px0),
        Element("H3", <<>>, TextA, FALSE, {}, FALSE, TRUE, 100, Px0)}

GenOptions ==
  {[headingSelector |-> sel, excludeSelectors |-> ex, excludeTextPatterns |-> res] :
     sel \in {DefaultSelector, [tags |-> {"H2"}, class |-> ""]},
     ex \in {<<>>, <<[tags |-> {}, class |-> "note"]>>},
     res \in {<<>>, <<RegExp(<<"a">>, FALSE)>>, <<RegExp(<<"a">>, TRUE)>>,
              <<RegExp(<<" ">>, FALSE), RegExp(<<"b">>, TRUE)>>}}

GenPresent == {AllPresent, [AllPresent EXCEPT !.tocNav = FALSE]}

GenInit ==
  /\ \E d \in SeqsUpTo(GenElements, MaxHeadings), o \in GenOptions, present \in GenPresent :
       Constructed(d, o, 1280, Modern, 0, present, TRUE)
  /\ Budget(0, 0, 0)
  /\ Started(<<>>, NoConfig)

GenNext == PageInit

SpecGen == GenInit /\ [][GenNext]_vars

(***************************************************************************)
(* Claims about generateTOC.                                               *)
(***************************************************************************)
\* The text matches the pattern: the pattern occurs in it.
TextMatches(re, text) == \E i \in 0..Len(text) : MatchesAt(re.src, text, i)

\* One of the five exclusion rules holds for the element.
Excluded(el, o) ==
  \/ el.skipAttr
  \/ SkipClass \in el.classes
  \/ el.selfContainer \/ el.inContainer
  \/ \E k \in DOMAIN o.excludeSelectors : Matches(el, o.excludeSelectors[k])
  \/ \E k \in DOMAIN o.excludeTextPatterns :
       TextMatches(o.excludeTextPatterns[k], Trim(el.text))

\* The positions in the document of the headings the list must show.
Included(d, o) ==
  {k \in DOMAIN d : Matches(d[k], o.headingSelector) /\ ~Excluded(d[k], o)}

\* tocItems are exactly the included headings, in document order, and the
\* i-th link carries data-toc-index = i.
MirrorsDocument ==
  /\ {tocItems[i].element : i \in DOMAIN tocItems} = Included(doc, options)
  /\ \A i, j \in DOMAIN tocItems : i < j => tocItems[i].element < tocItems[j].element
  /\ Len(tocLinks) = Len(tocItems)
  /\ \A i \in DOMAIN tocLinks :
       tocLinks[i].tocIndex = i - 1 /\ tocLinks[i].href = tocItems[i].id

GenerateRan == phase = "ready" /\ articleContent /\ tocNav /\ tocContainer

\* C1: after generateTOC has run with the three containers present, tocItems
\* is exactly the sequence, in document order, of the headings that match
\* headingSelector and that none of the five exclusion rules excludes, and
\* the i-th link carries data-toc-index = i.
C1_TocMirrorsDocument == GenerateRan => MirrorsDocument

\* The same when no text pattern carries the g flag: this holds.
NoGlobalPattern ==
  \A k \in DOMAIN options.excludeTextPatterns : ~options.excludeTextPatterns[k].global

TocMirrorsDocumentWithoutGlobalPatterns ==
  (GenerateRan /\ NoGlobalPattern) => MirrorsDocument

(***************************************************************************)
(* Spec: the controller on an article of two headings.  The headings have  *)
(* generated ids or share the id "x"; the first heading has a              *)
(* scroll-margin-top of 0px, of 80px or none; the browser is a desktop     *)
(* (with smooth scrolling and scrollend, with smooth scrolling alone, or   *)
(* with neither) or a mobile viewport.                                     *)
(***************************************************************************)
Heading(id, top, scrollMargin) ==
  Element("H2", id, TextA, FALSE, {}, FALSE, FALSE, top, scrollMargin)

ScrollDocs ==
  {<<Heading(id, tops[1], sm), Heading(id, tops[2], Px0)>> :
     id \in {<<>>, <<"x">>}, tops \in {<<120, 320>>, <<300, 100>>},
     sm \in {Px0, Px80, <<>>}}

Browsers ==
  {[width |-> 1280, features |-> f] :
     f \in {Modern, [Modern EXCEPT !.onscrollend = FALSE],
            [scrollBehavior |-> FALSE, onscrollend |-> FALSE]}}
  \cup {[width |-> w, features |-> Modern] : w \in {1024, 768}}

TocInit ==
  /\ \E d \in ScrollDocs, b \in Browsers :
       /\ (b.width > MobileMaxWidth => d[1].scrollMargin = Px0)
       /\ (b.width = 768 => d[1].scrollMargin = Px80)
       /\ Constructed(d, DefaultOptions, b.width, b.features, 0, AllPresent, TRUE)
  /\ Budget(MaxClicks, MaxScrolls, MaxWaits)
  /\ Started(<<>>, NoConfig)

TocNext ==
  \/ PageInit
  \/ ObserverCallback
  \/ \E link \in 1..2 : ClickLink(link)
  \/ \E y \in ScrollPositions : Scroll(y)
  \/ SmoothArrive
  \/ ScrollEvent
  \/ ScrollEnd
  \/ FireSafety
  \/ FireMenu
  \/ FireAdjust
  \/ FireCheck
  \/ FirePoll
  \/ FireThrottle
  \/ Tick
  \/ Wait

Init == TocInit

Next == TocNext

Spec == Init /\ [][Next]_vars

(***************************************************************************)
(* SpecReentry: a desktop browser with smooth scrolling and scrollend, an  *)
(* article whose second heading lies above the offset (its scroll target   *)
(* is negative, so that at the top of the page a click on its link moves   *)
(* nothing), and up to ReentryClicks clicks.                               *)
(***************************************************************************)
ReentryInit ==
  /\ \E id \in {<<>>, <<"x">>} :
       Constructed(<<Heading(id, 300, Px0), Heading(id, 100, Px0)>>, DefaultOptions,
                   1280, Modern, 0, AllPresent, TRUE)
  /\ Budget(ReentryClicks, 0, 0)
  /\ Started(<<>>, NoConfig)

ReentryNext ==
  \/ PageInit
  \/ \E link \in 1..2 : ClickLink(link)
  \/ SmoothArrive
  \/ ScrollEnd
  \/ FireSafety
  \/ FireCheck
  \/ FireThrottle
  \/ Tick

SpecReentry == ReentryInit /\ [][ReentryNext]_vars

(***************************************************************************)
(* Claims about the scroll tracking and the link clicks.                   *)
(***************************************************************************)
\* The top of the i-th (0-based) heading of the list, in document
\* coordinates.
HeadingTop(i) == doc[tocItems[i + 1].element].top

\* The offset of the tracking rule: 120 on desktop; on mobile the
\* scroll-margin-top of the first heading of the list when it parses to a
\* positive integer, and 100 otherwise.
TrackingOffset ==
  IF ~isMobile THEN 120
  ELSE LET sm == ParseInt(doc[tocItems[1].element].scrollMargin)
       IN IF ~sm.nan /\ sm.val > 0 THEN sm.val ELSE 100

\* The index the tracking rule yields for the scroll position.
TrackedIndex ==
  LET S == {i \in 0..Len(tocItems) - 1 : HeadingTop(i) <= scrollY + TrackingOffset}
  IN IF S = {} THEN -1 ELSE Max(S)

\* A step in which updateActiveTOC runs with a non-empty list and no
\* programmatic scroll in progress: init(), or a scroll event outside the
\* throttle window.
UpdateActiveTOCRuns ==
  \/ PageInit /\ tocItems' # <<>>
  \/ /\ tocItems # <<>> /\ ~isScrolling /\ ~inThrottle
     /\ (\E y \in ScrollPositions : Scroll(y)) \/ SmoothArrive \/ ScrollEvent

\* C2: whenever updateActiveTOC runs with a non-empty tocItems and no
\* programmatic scroll in progress, currentActiveIndex becomes the greatest
\* index whose heading top is <= scrollTop + offset, or -1 when there is none.
C2_ActiveIndexTracksScroll ==
  [][UpdateActiveTOCRuns => currentActiveIndex' = TrackedIndex']_vars

\* C2, witness: a scroll event has moved the active index to the second
\* heading, whose top lies exactly at scrollTop + offset.
C2_Witness ==
  /\ phase = "ready" /\ scrolls < MaxScrolls /\ ~isScrolling
  /\ currentActiveIndex = 1
  /\ HeadingTop(1) = scrollY + TrackingOffset

\* The scroll accepted last is in progress: it has not completed and less
\* than 3 seconds have passed since it started.
Suppressing ==
  /\ scrollCount > 0
  /\ scrollCount \notin completed
  /\ now - lastScrollTimestamp < SafetyTimeout

\* C3: once a scroll has been accepted, no further scrollToElement request
\* is accepted (no new scroll starts, isScrolling and lastScrollTimestamp
\* stay) until that scroll has completed or 3 seconds have passed since it
\* started.
C3_ReentrantScrollsSuppressed ==
  [][Suppressing =>
       /\ scrollCount' = scrollCount
       /\ lastScrollTimestamp' = lastScrollTimestamp]_vars

\* The same for the first scroll of a page, which no earlier timer or
\* listener can disturb: this holds.
FirstScrollSuppressesReentry ==
  [][(Suppressing /\ scrollCount = 1) => scrollCount' = scrollCount]_vars

\* C4: isScrolling does not stay true for more than 3 seconds after the
\* scroll that set it started, whether or not a completion signal arrives:
\* while it is true the scroll is at most 3 seconds old and its safety timer
\* is pending.
C4_SuppressionBounded ==
  isScrolling =>
    /\ now - lastScrollTimestamp <= SafetyTimeout
    /\ \E k \in DOMAIN timers :
         timers[k].kind = "safety" /\ timers[k].at = lastScrollTimestamp + SafetyTimeout

\* C4, witness: the first scroll was ended by the safety timeout alone (no
\* scroll has completed) and a later click has been accepted.
C4_Witness == scrollCount >= 2 /\ completed = {} /\ isScrolling

\* C5 as stated: a click on a link whose target exists marks the link active
\* in the same step.
C5_ClickMarksActiveAtOnce ==
  [][\A link \in DOMAIN tocLinks :
       (ClickLink(link) /\ GetElementById(doc, tocLinks[link].href) # 0) =>
         /\ currentActiveIndex' = link - 1
         /\ tocLinks'[link].active
         /\ tocLinks'[link].ariaCurrent = "location"]_vars

\* The index (0-based) of the first item of the list with the id.
FirstItemWithId(id) ==
  CHOOSE i \in 0..Len(tocItems) - 1 :
    /\ tocItems[i + 1].id = id
    /\ \A j \in 0..i - 1 : tocItems[j + 1].id # id

\* C5, amended: the clicked link is marked active when onScrollComplete runs
\* for it, not at the click: after a step that ran onScrollComplete, the
\* active index is that of the first item whose id is the target of the
\* link of the last call, and the link at that position is the one marked.
C5_CompletionMarksActive ==
  calls # <<>> =>
    LET idx == FirstItemWithId(tocLinks[calls[Len(calls)].link].href)
    IN /\ currentActiveIndex = idx
       /\ \A k \in DOMAIN tocLinks :
            /\ tocLinks[k].active <=> (k - 1 = idx)
            /\ tocLinks[k].ariaCurrent = IF k - 1 = idx THEN "location" ELSE "false"

\* C5, witness: onScrollComplete has run on a timer, after the click, and
\* has moved the active index to the clicked link.
C5_Witness ==
  /\ calls # <<>>
  /\ now > lastScrollTimestamp
  /\ currentActiveIndex = calls[Len(calls)].link - 1
  /\ tocLinks[calls[Len(calls)].link].active

(***************************************************************************)
(* SpecCLI: one run of cli.sh, for every command line of a first argument  *)
(* and up to MaxArgs further ones, in a project with or without an earlier *)
(* configuration file.  The page of the controller stays as constructed.   *)
(***************************************************************************)
OldConfig ==
  [present |-> TRUE, name |-> "old", walleVersion |-> "v0", updatedAt |-> "2025-01-01T00:00:00"]

CommandLines ==
  {<<>>} \cup {<<c>> \o r : c \in Tokens, r \in SeqsUpTo(OptionTokens, MaxArgs)}

CliInit ==
  /\ \E a \in CommandLines, c \in {NoConfig, OldConfig} : Started(a, c)
  /\ Constructed(<<Heading(<<>>, 120, Px0)>>, DefaultOptions, 1280, Modern, 0, AllPresent, TRUE)
  /\ Budget(0, 0, 0)

CliNext ==
  \/ Main
  \/ Dispatch
  \/ InitParse
  \/ InitCheck
  \/ InitMkdir
  \/ InitDownload
  \/ InitConfig
  \/ UpdateParse
  \/ UpdateCheck
  \/ UpdateDownload
  \/ SyncFiles
  \/ UpdateConfig
  \/ CommandDone
  \/ MainFinish

SpecCLI == CliInit /\ [][CliNext]_vars

\* bash runs the script to its end: a step that changes the state is taken
\* when there is one.
SpecCLIFair == SpecCLI /\ WF_vars(CliNext)

(***************************************************************************)
(* Claims about cli.sh.                                                    *)
(***************************************************************************)
\* C6: once git clone, mkdir or cp has returned a non-zero status, no
\* further step of init or update runs, and the script ends with a non-zero
\* status and an [ERROR] line.
C6_FailuresAreFatal ==
  failed # {} =>
    /\ ~afterFail
    /\ pc = "exited" => (exitCode # 0 /\ out.errors > 0)

\* Of the three commands, git clone is the one whose failure is fatal: this
\* holds.
CloneFailureIsFatal ==
  "git clone" \in failed => (pc = "exited" /\ exitCode # 0 /\ out.errors > 0)

\* C7: when the script has exited, on whatever path, the temporary
\* directory made at start-up does not exist.
C7_TempDirRemoved == pc = "exited" => ~TEMP_DIR

\* C7, witness: an exit with an error after the clone into the temporary
\* directory, where only the EXIT trap removes it.
C7_Witness ==
  /\ pc = "exited" /\ exitCode # 0
  /\ command = "update" /\ GITHUB_WALLE_VERSION_SHA # ""

\* The name the configuration file has after update: the last component of
\* the project path.
ProjectDirName ==
  CASE PROJECT_PATH = "sites/blog" -> "blog"
    [] PROJECT_PATH = Pwd -> "site"
    [] OTHER -> PROJECT_PATH

Succeeded == pc = "exited" /\ exitCode = 0 /\ out.success

\* C8: after a successful init or update the configuration file exists with
\* exactly the fields name, walleVersion and updatedAt: the -n name and
\* "main" after init, the basename of the project path and the short SHA of
\* the cloned HEAD after update, whatever file was there before.
C8_ConfigWritten ==
  Succeeded =>
    /\ config.present
    /\ DOMAIN config = {"present", "name", "walleVersion", "updatedAt"}
    /\ config.updatedAt = Date
    /\ command = "init" =>
         (config.name = PROJECT_NAME /\ config.walleVersion = "main")
    /\ command = "update" =>
         /\ config.name = ProjectDirName
         /\ config.walleVersion = ShortSha(GITHUB_WALLE_VERSION_BRANCH)

\* C8, witness: update of a project in a directory of two components, a
\* branch given, over an earlier configuration file.
C8_Witness ==
  /\ Succeeded /\ command = "update"
  /\ PROJECT_PATH = "sites/blog"
  /\ GITHUB_WALLE_VERSION_BRANCH # "main"
  /\ config.name = "blog"

\* The positions of the command line.
HelpAsked == \E i \in DOMAIN argv : argv[i] \in {"-h", "--help"}

InitOptions == {"-n", "--project-name", "-d", "--dir-path", "-h", "--help"}

UpdateOptions == {"-w", "--walle-version", "-p", "--project-path", "-h", "--help"}

\* Command lines the validation is to reject: init with no -n at all, a
\* command followed by something that is not one of its options, and update
\* with just a -p path that is not a directory.
BadArguments ==
  /\ pc = "main" /\ argv # <<>> /\ ~HelpAsked
  /\ \/ argv[1] = "init" /\ \A i \in DOMAIN argv : argv[i] \notin {"-n", "--project-name"}
     \/ argv[1] = "init" /\ Len(argv) >= 2 /\ argv[2] \notin InitOptions
     \/ argv[1] = "update" /\ Len(argv) >= 2 /\ argv[2] \notin UpdateOptions
     \/ argv[1] = "update" /\ Len(argv) = 3 /\ argv[2] = "-p" /\ argv[3] \notin {Pwd, "sites/blog"}

Rejected == pc = "exited" /\ exitCode # 0 /\ out.errors > 0 /\ ~touched

\* C9: such a command line makes the script exit with a non-zero status and
\* an [ERROR] line, nothing having been cloned, copied, deleted or written
\* in the project directory.
C9_ValidationRejects == BadArguments ~> Rejected

\* The part of it that is about the order: as long as the arguments have
\* not passed the validation, nothing is touched.  This holds.
NothingTouchedBeforeValidation ==
  pc \in {"main", "dispatch", "init.parse", "init.check", "update.parse", "update.check"}
    => ~touched

\* C10: -h together with init or update shows the usage of that command and
\* exits with status 0, no [ERROR] line, nothing cloned or modified.
C10_HelpShowsUsage ==
  (pc = "exited" /\ argv # <<>> /\ argv[1] \in Commands /\ HelpAsked) =>
    /\ exitCode = 0
    /\ out.errors = 0
    /\ out.usage = argv[1]
    /\ ~touched

(***************************************************************************)
(* SpecPanel: the panel of the table of contents on a page of one or of    *)
(* seven headings, in a window of any of the widths, with or without an h3 *)
(* header in #toc: taps, clicks and keys on the header, keys elsewhere,    *)
(* resizes of the window and a user scroll.                                *)
(***************************************************************************)
PanelDocs ==
  {<<Heading(<<>>, 120, Px0)>>,
   [k \in 1..(AutoCollapseItems + 1) |-> Heading(<<>>, 100 * k, Px0)]}

PanelInit ==
  /\ \E d \in PanelDocs, w \in Widths, header \in BOOLEAN :
       Constructed(d, DefaultOptions, w, Modern, 0, AllPresent, header)
  /\ clicks = 0 /\ scrolls = 1 /\ waits = 0 /\ inputs = MaxInputs
  /\ Started(<<>>, NoConfig)

PanelNext ==
  \/ PageInit
  \/ ObserverCallback
  \/ \E x \in TouchXs, y \in TouchYs : TouchStart(x, y)
  \/ \E x \in TouchXs, y \in TouchYs : TouchMove(x, y)
  \/ TouchEnd
  \/ HeaderClick
  \/ \E key \in Keys, onHeader \in BOOLEAN : KeyDown(key, onHeader)
  \/ \E w \in Widths : Resize(w)
  \/ FireResize
  \/ \E y \in ScrollPositions : Scroll(y)
  \/ FireThrottle
  \/ Tick

SpecPanel == PanelInit /\ [][PanelNext]_vars

\* A step that runs setupMobileInteraction: init() when generateTOC made a
\* list, and the debounced resize handler.
SetupRuns == (PageInit /\ tocItems' # <<>>) \/ FireResize

IsTapSequence(ts) ==
  \A i \in 2..Len(ts) :
    /\ Abs(ts[i].x - ts[1].x) <= 10
    /\ Abs(ts[i].y - ts[1].y) <= 10

\* C12: the touchend of a sequence touchstart, touchmove*, touchend toggles
\* the panel (once) exactly when no touchmove of the sequence was more than
\* 10 px away from the touchstart in x or in y.
C12_TapToggles ==
  [][TouchEnd => ((collapsed' = ~collapsed) <=> IsTapSequence(touches))]_vars

\* C12, witness: a finger that has moved 11 px away and come back to where
\* it started: the gesture is no tap.
C12_Witness ==
  /\ Len(touches) = 3
  /\ touches[3] = touches[1]
  /\ ~IsTapSequence(touches)
  /\ ~isTap

\* C13 as stated: on the header with the toggle handlers, a keydown of Enter
\* or Space flips the collapsed state and a keydown of any other key leaves
\* it unchanged.
C13_KeysToggle ==
  [][\A key \in Keys :
       KeyDown(key, TRUE) =>
         collapsed' = (IF key \in {"Enter", " "} THEN ~collapsed ELSE collapsed)]_vars

\* C13, amended: Enter and Space flip the collapsed state, Escape (which
\* bubbles to the keydown listener of the document) leaves the panel
\* collapsed, and every other key leaves the state unchanged.
C13_KeysToggleOrCollapse ==
  [][\A key \in Keys :
       KeyDown(key, TRUE) =>
         collapsed' = (IF key \in {"Enter", " "} THEN ~collapsed
                       ELSE IF key = "Escape" THEN TRUE
                       ELSE collapsed)]_vars

\* C13, witness: Space on the header of a narrow window, whose panel
\* started collapsed, has expanded it.
C13_Witness ==
  /\ lastKey = " " /\ inputs = MaxInputs - 1
  /\ headerToggle /\ innerWidth = 768
  /\ ~collapsed

\* The timers of the debounced resize handler that are pending.
ResizeTimers == {k \in DOMAIN timers : timers[k].kind = "resize"}

\* C14: the debounced resize handler keeps at most one pending timer, and
\* after a resize event the device-type update and setupMobileInteraction
\* run once, 250 ms after the last resize event, and not while a resize
\* timer is pending.
C14_DebouncedResize ==
  /\ [](/\ Cardinality(ResizeTimers) <= 1
        /\ \A k \in ResizeTimers : timers[k].at = lastResize + 250
        /\ lastResize >= 0 => (setupRuns = IF ResizeTimers = {} THEN 1 ELSE 0))
  /\ [][FireResize => now = lastResize + 250]_vars

\* C14, witness: a burst of two resize events 16 ms apart, and the one run
\* of the handler 250 ms after the second.
C14_Witness ==
  /\ setupRuns = 1
  /\ timerIds = 2
  /\ lastResize = ThrottleLimit
  /\ now = lastResize + 250

(***************************************************************************)
(* SpecAbsent: a page on which one of #article-content, #toc-nav and #toc  *)
(* is missing, or on which no element matches the heading selector.        *)
(***************************************************************************)
Paragraph == Element("P", <<>>, TextA, FALSE, {}, FALSE, FALSE, 120, Px0)

Presences ==
  {[articleContent |-> a, tocNav |-> n, tocContainer |-> c] : a, n, c \in BOOLEAN}

AbsentInit ==
  /\ \E present \in Presences, w \in Widths, header \in BOOLEAN :
       /\ header => present.tocContainer
       /\ Constructed(IF present = AllPresent THEN <<Paragraph>> ELSE <<Heading(<<>>, 120, Px0)>>,
                      DefaultOptions, w, Modern, 0, present, header)
  /\ clicks = 0 /\ scrolls = 1 /\ waits = 0 /\ inputs = MaxInputs
  /\ Started(<<>>, NoConfig)

\* A click inside #toc-nav on something that is no link to a heading: the
\* click listener does nothing.
ClickNav ==
  /\ Ready
  /\ tocNav
  /\ inputs > 0
  /\ inputs' = inputs - 1
  /\ calls' = <<>>
  /\ UNCHANGED <<pageVars, managerVars, domVars, loopVars, phase, clicks, scrolls, waits,
                 scrollCount, completed, polled, touchStartY, touchStartX, isTap, timeout,
                 timerIds, touches, lastResize, setupRuns, lastKey, cliVars>>

AbsentNext ==
  \/ PageInit
  \/ ObserverCallback
  \/ ClickNav
  \/ \E key \in Keys : KeyDown(key, FALSE)
  \/ \E w \in Widths : Resize(w)
  \/ FireResize
  \/ \E y \in ScrollPositions : Scroll(y)
  \/ FireThrottle
  \/ Tick

SpecAbsent == AbsentInit /\ [][AbsentNext]_vars

\* C15: after init() on a page without #article-content, #toc-nav or #toc
\* there is no item and no link, and scroll, resize, keydown and click
\* events leave currentActiveIndex at -1 and isScrolling false; on a page
\* with the three of them and no matching heading, #toc is hidden and there
\* is no item.
C15_DegradesGracefully ==
  phase = "ready" =>
    /\ (~articleContent \/ ~tocNav \/ ~tocContainer) =>
         /\ tocItems = <<>> /\ tocLinks = <<>>
         /\ currentActiveIndex = -1 /\ ~isScrolling
    /\ (articleContent /\ tocNav /\ tocContainer
          /\ \A k \in DOMAIN doc : doc[k].tag \notin {"H2", "H3"}) =>
         (tocDisplay = "none" /\ tocItems = <<>>)

\* C15, witness: a page without #toc-nav after a scroll, a resize and a key.
C15_Witness ==
  /\ phase = "ready" /\ ~tocNav /\ articleContent /\ tocContainer
  /\ scrollY # 0 /\ setupRuns = 1 /\ inputs <= MaxInputs - 2

(***************************************************************************)
(* Claims about the completion of a scroll and the active link.            *)
(***************************************************************************)
\* Nothing is pending: no timer, no animated scroll, no event to dispatch.
\* From here on the state changes only when the user acts again.
Idle ==
  /\ phase = "ready"
  /\ timers = <<>> /\ smoothTarget = -1 /\ ~scrollPending /\ ~moved
  /\ ~observerPending

\* C16: onScrollComplete runs at most once for an accepted scrollToElement
\* call, and not after a later call has been accepted: every call a step
\* makes is for the scroll accepted last, which has not completed before,
\* and no step makes two calls for one scroll.
C16_CompletionBelongsToItsScroll ==
  [][\A i \in DOMAIN calls' :
       /\ calls'[i].scroll = scrollCount'
       /\ calls'[i].scroll \notin completed
       /\ \A j \in DOMAIN calls' : calls'[j].scroll = calls'[i].scroll => j = i]_vars

\* The first call for the first scroll of a page is its own: this holds.
FirstCompletionBelongsToItsScroll ==
  [][(completed = {} /\ scrollCount' = 1) =>
       \A i \in DOMAIN calls' : calls'[i].scroll = 1]_vars

\* The link at position l carries the class navigating.
Navigating(l) == l \in DOMAIN tocLinks /\ tocLinks[l].navigating

\* C17: a link that has the class navigating loses it after finitely many
\* steps, whatever the user does or does not do next: when nothing is
\* pending any more, no link has the class.
C17_NavigatingIsRemoved == Idle => \A l \in DOMAIN tocLinks : ~Navigating(l)

\* A link whose click started the scroll loses the class when that scroll
\* completes: this holds (for the first scroll of a page).
NavigatingRemovedOnCompletion ==
  [][\A i \in DOMAIN calls' : ~tocLinks'[calls'[i].link].navigating]_vars

\* C18: after init, currentActiveIndex is in -1 .. tocItems.length - 1, at
\* most one link has the class active, and a link has it, and
\* aria-current=location, exactly when its position is currentActiveIndex.
C18_ActiveLinkConsistent ==
  phase = "ready" =>
    /\ currentActiveIndex \in -1..(Len(tocItems) - 1)
    /\ Cardinality({k \in DOMAIN tocLinks : tocLinks[k].active}) <= 1
    /\ \A k \in DOMAIN tocLinks :
         /\ tocLinks[k].active <=> (k - 1 = currentActiveIndex)
         /\ (tocLinks[k].ariaCurrent = "location") <=> (k - 1 = currentActiveIndex)

\* C18, witness: the active link has moved from one link to another, by a
\* completed scroll and by a scroll event.
C18_Witness ==
  /\ phase = "ready" /\ completed # {} /\ scrolls < MaxScrolls
  /\ currentActiveIndex = 1
  /\ tocLinks[1].ariaCurrent = "false" /\ tocLinks[2].active

\* Scrolling has stopped: nothing is pending and no programmatic scroll is
\* in progress.
Settled == Idle /\ ~isScrolling /\ tocItems # <<>>

\* C19: once scrolling has stopped, currentActiveIndex is the index the
\* tracking rule yields for the scroll position.
C19_SettledIndexTracksPosition == Settled => currentActiveIndex = TrackedIndex

\* A scroll event is dispatched.
ScrollEventDispatched ==
  (\E y \in ScrollPositions : Scroll(y)) \/ SmoothAdvance \/ SmoothArrive \/ ScrollEvent

ActiveUnchanged ==
  /\ currentActiveIndex' = currentActiveIndex
  /\ \A k \in DOMAIN tocLinks :
       /\ tocLinks'[k].active = tocLinks[k].active
       /\ tocLinks'[k].ariaCurrent = tocLinks[k].ariaCurrent

\* C20: while isScrolling is true a scroll event leaves currentActiveIndex
\* and the class active and aria-current of every link unchanged; they
\* change only in a step that runs onScrollComplete, or updateActiveTOC
\* with isScrolling false.
C20_ScrollEventsIgnoredWhileScrolling ==
  /\ [][(isScrolling /\ ScrollEventDispatched) => ActiveUnchanged]_vars
  /\ [][(phase = "ready" /\ ~ActiveUnchanged) =>
          (calls' # <<>> \/ (~isScrolling /\ ScrollEventDispatched))]_vars

\* C20, witness: a programmatic scroll in progress has moved the window to
\* where the tracking rule yields another index than the current one.
C20_Witness ==
  /\ phase = "ready" /\ isScrolling /\ inThrottle
  /\ scrollY # 0
  /\ currentActiveIndex # TrackedIndex

(***************************************************************************)
(* SpecThrottle: a desktop page, up to ThrottleScrolls user scrolls that   *)
(* may follow one another within one throttle window, at its end or after  *)
(* it, and one link click.                                                 *)
(***************************************************************************)
ThrottleInit ==
  /\ \E id \in {<<>>, <<"x">>}, b \in {w \in Browsers : w.width = 1280} :
       Constructed(<<Heading(id, 120, Px0), Heading(id, 320, Px0)>>, DefaultOptions,
                   b.width, b.features, 0, AllPresent, TRUE)
  /\ Budget(1, ThrottleScrolls, 1)
  /\ Started(<<>>, NoConfig)

ThrottleNext ==
  \/ PageInit
  \/ \E link \in 1..2 : ClickLink(link)
  \/ \E y \in ScrollPositions : Scroll(y)
  \/ SmoothArrive
  \/ ScrollEvent
  \/ ScrollEnd
  \/ FireSafety
  \/ FireCheck
  \/ FirePoll
  \/ FireThrottle
  \/ Tick
  \/ Wait

SpecThrottle == ThrottleInit /\ [][ThrottleNext]_vars

\* The throttled handler ran updateActiveTOC in this step.
ThrottledRun == ScrollEventDispatched /\ ~inThrottle

\* The throttle timer pending, if any.
ThrottleTimers == {k \in DOMAIN timers : timers[k].kind = "throttle"}

\* C21: the throttled scroll handler runs updateActiveTOC at most once in a
\* window of 16 ms.  The first scroll event of a window runs it at once and
\* opens the window; an event that arrives before the timer of the window
\* has fired changes nothing (neither the active item nor the timers: it is
\* not replayed); when the timer has fired the throttle is open again, so
\* that the next event runs it.
C21_ThrottledScroll ==
  /\ [][ScrollEventDispatched =>
          IF inThrottle
            THEN ActiveUnchanged /\ timers' = timers /\ inThrottle' /\ lastRun' = lastRun
            ELSE /\ lastRun' = now /\ inThrottle'
                 /\ (lastRun # -1 => now >= lastRun + ThrottleLimit)
                 /\ currentActiveIndex' =
                      IF isScrolling \/ tocItems = <<>> THEN currentActiveIndex
                      ELSE TrackedIndex']_vars
  /\ [][FireThrottle => ~inThrottle' /\ now = lastRun + ThrottleLimit]_vars
  /\ [](phase = "ready" =>
          /\ inThrottle <=> ThrottleTimers # {}
          /\ Cardinality(ThrottleTimers) <= 1)

\* C21, witness: no click was made and three scroll events were dispatched,
\* the handler ran for the first at time 0 and again at the end of that
\* window (the clock only got there through the timer of the window), so
\* one of the three was dropped, and the active item is the one of the
\* position.
C21_Witness ==
  /\ phase = "ready" /\ inThrottle /\ scrollCount = 0 /\ clicks = 1
  /\ scrolls = 0 /\ lastRun = ThrottleLimit
  /\ currentActiveIndex = TrackedIndex

(***************************************************************************)
(* Claims about the panel across resizes.                                  *)
(***************************************************************************)
\* The user has expanded the panel: the header carries the toggle handlers,
\* so setupMobileInteraction has run on mobile, and with more than
\* AutoCollapseItems items every such run collapsed the panel; only
\* toggleCollapse removes the class.
UserExpanded ==
  /\ phase = "ready" /\ headerToggle /\ ~collapsed
  /\ Len(tocItems) > AutoCollapseItems

\* A step of the user that may collapse the panel: a toggle (tap, click or
\* key on the header), Escape, or a click on a link.
UserCollapses ==
  \/ TouchEnd
  \/ HeaderClick
  \/ \E key \in Keys, onHeader \in BOOLEAN : KeyDown(key, onHeader)
  \/ \E link \in DOMAIN tocLinks : ClickLink(link)

\* C22: the auto-collapse is applied on the initial load only: a panel the
\* user has expanded stays expanded until the user toggles it, presses
\* Escape or clicks a link; a resize does not collapse it.
C22_ExpandedStaysExpanded ==
  [][(UserExpanded /\ collapsed') => UserCollapses]_vars

\* C23: when the header carries the toggle handlers and no MutationObserver
\* callback is due, aria-expanded of the header is "true" exactly when #toc
\* does not have the class collapsed.
C23_AriaExpandedMatchesPanel ==
  (phase = "ready" /\ headerToggle /\ ~observerPending) =>
    (ariaExpanded = "true" <=> ~collapsed)

\* The attribute matches the panel as long as the header has been installed
\* once only: this holds.
AriaExpandedMatchesUntilReinstalled ==
  (phase = "ready" /\ headerToggle /\ ~observerPending /\ lastResize = -1) =>
    (ariaExpanded = "true" <=> ~collapsed)

(***************************************************************************)
(* SpecPoll: a desktop browser with smooth scrolling and no scrollend      *)
(* event, so that scrollToElement calls waitForScrollEnd; one link click,  *)
(* and a smooth scroll the browser animates in steps, at any pace, so that *)
(* the position may differ at every poll.                                  *)
(***************************************************************************)
PollInit ==
  /\ \E id \in {<<>>, <<"x">>} :
       Constructed(<<Heading(id, 120, Px0), Heading(id, 320, Px0)>>, DefaultOptions,
                   1280, [Modern EXCEPT !.onscrollend = FALSE], 0, AllPresent, TRUE)
  /\ Budget(1, 0, 0)
  /\ Started(<<>>, NoConfig)

PollNext ==
  \/ PageInit
  \/ \E link \in 1..2 : ClickLink(link)
  \/ SmoothAdvance
  \/ SmoothArrive
  \/ FireSafety
  \/ FireCheck
  \/ FirePoll
  \/ FireThrottle
  \/ Tick

SpecPoll == PollInit /\ [][PollNext]_vars

\* The polls of waitForScrollEnd that are pending.
PollTimers == {k \in DOMAIN timers : timers[k].kind = "poll"}

\* The number of times checkScroll has invoked the callback for a scroll.
PolledTimes(scroll) == Cardinality({k \in DOMAIN polled : polled[k] = scroll})

\* C24: waitForScrollEnd terminates.  A poll invokes the callback when the
\* position is less than 1 px from the previous sample, or when it is the
\* 50th, and then schedules nothing; otherwise it schedules the next poll,
\* 50 ms later, and invokes nothing.  So the callback is invoked at most
\* once while polls are pending, and exactly once when none is left, at the
\* latest 50 * 50 ms after the call.
C24_WaitForScrollEndTerminates ==
  /\ [][FirePoll =>
          LET t == Head(timers)
              stopped == Abs(scrollY - t.pos) < 1
              last == t.count + 1 >= maxChecks
          IN IF stopped \/ last
               THEN /\ polled' = Append(polled, t.scroll)
                    /\ \E i \in DOMAIN calls' : calls'[i].scroll = t.scroll
                    /\ timers' = Tail(timers)
               ELSE /\ polled' = polled /\ calls' = <<>>
                    /\ \E k \in DOMAIN timers' :
                         /\ timers'[k] = [t EXCEPT !.at = now + ScrollPollInterval,
                                                   !.pos = scrollY,
                                                   !.count = t.count + 1]
                         /\ {j \in DOMAIN timers' : timers'[j].kind = "poll"} = {k}]_vars
  /\ [](phase = "ready" =>
          /\ Cardinality(PollTimers) <= 1
          /\ \A k \in PollTimers :
               /\ timers[k].count < maxChecks
               /\ timers[k].at = lastScrollTimestamp + ScrollPollInterval * (timers[k].count + 1)
               /\ PolledTimes(timers[k].scroll) = 0
          /\ \A n \in 1..scrollCount :
               /\ PolledTimes(n) <= 1
               /\ (PollTimers = {}) => PolledTimes(n) = 1)

\* C24, witness: the position differed from the previous sample at each of
\* the first 49 polls, and the 50th, 2500 ms after the call, has invoked the
\* callback.
C24_Witness ==
  /\ phase = "ready" /\ scrollCount = 1 /\ polled = <<1>>
  /\ now = lastScrollTimestamp + ScrollPollInterval * maxChecks
  /\ calls # <<>>
  /\ PollTimers = {}

(***************************************************************************)
(* Claims about the order of the steps of update.                          *)
(***************************************************************************)
\* This run has written .walle.config.json.
ConfigRewritten == config.present /\ config.updatedAt = Date

\* The steps of update so far came in the order download, sync_files calls,
\* create_config_file, success message.
UpdateOrder ==
  /\ synced > 0 => (GITHUB_WALLE_VERSION_SHA # "" /\ "git clone" \notin failed)
  /\ ConfigRewritten => synced = Len(SyncSources)
  /\ out.success => ConfigRewritten
  /\ "git clone" \in failed => (~touched /\ ~ConfigRewritten /\ synced = 0)

\* C25: update downloads, then synchronises every listed path, then writes
\* the configuration file, then prints the success message: the file is
\* rewritten only when every sync_files call has completed and no copy has
\* failed, and when the download fails nothing under the project path has
\* been removed, copied or written.
C25_UpdateStepsInOrder ==
  command = "update" =>
    /\ UpdateOrder
    /\ ConfigRewritten => "cp" \notin failed

\* The order itself, and that a failed download touches nothing: this holds.
UpdateStepsInOrderWhateverCopies == command = "update" => UpdateOrder

====
